---- MODULE Spec2Model ----
(***************************************************************************)
(* Model of the GCS bucket lister (src/main.js): one HTTP request walking  *)
(* the request handler, listBuckets, getAccessToken,                       *)
(* getServiceAccountToken and getCurrentProject (Spec), the same request   *)
(* under fair scheduling (SpecLive), and two such requests interleaved at  *)
(* their awaits (SpecConcurrent).                                          *)
(*                                                                         *)
(* Strings whose content the code inspects (tokens, project ids, CLI       *)
(* output) are sequences of one-character strings; the empty sequence is   *)
(* the empty string.  Deno.env.get returning undefined and returning ""    *)
(* are both falsy and are both modelled by the empty sequence.             *)
(***************************************************************************)
EXTENDS Integers, Sequences, FiniteSets, TLC

VARIABLES
    env,        \* process-wide configuration: permissions, env values, files
    pc,         \* position of the request in the handler
    method,     \* req.method
    path,       \* url.pathname
    src,        \* credential source getAccessToken is at (1..5)
    psrc,       \* project source getCurrentProject is at (1..5)
    ret,        \* settled result of the call listBuckets is awaiting
    token,      \* listBuckets: const token
    projectId,  \* listBuckets: const projectId
    response,   \* the Response returned by the handler
    tried,      \* history: credential sources attempted, in order
    ptried,     \* history: project sources consulted, in order
    posts,      \* history: POSTs sent to the token endpoint
    gets,       \* history: GETs sent to the bucket-list endpoint
    tokenResp,  \* getServiceAccountToken: const tokenResponse (last call)
    exch,       \* outcome of the last getServiceAccountToken call
    listResp,   \* listBuckets: const response
    cliToken,   \* getAccessToken: result of cmd.output()
    cliProject, \* getCurrentProject: result of cmd.output()
    caught,     \* getAccessToken: errors its catch blocks swallowed, with their source
    pending,    \* I/O operations issued and not yet completed
    answers,    \* history: the external answers the request received (kept when .on)
    rid,        \* the request that is running (1 or 2)
    other,      \* the variables of the request that is not running
    listReq,    \* listBuckets: the request for the bucket list it issued
    assertion,  \* getServiceAccountToken: the assertion it built (claimSet and segments)
    thrown      \* history: the error that reached the handler's catch

vars == <<env, pc, method, path, src, psrc, ret, token, projectId, response,
          tried, ptried, posts, gets, tokenResp, exch, listResp, cliToken, cliProject,
          caught, thrown, pending, assertion, listReq, answers, rid, other>>

(***************************************************************************)
(* Bounds                                                                  *)
(***************************************************************************)
MaxOut == 2      \* longest CLI standard output, in characters
MaxItems == 2    \* most buckets in one bucket-list answer

(***************************************************************************)
(* Values                                                                  *)
(***************************************************************************)
Empty == <<>>
\* the characters String.prototype.trim removes; those that have no escape in
\* a string are named by their code point
WhiteSpace ==
    {"\t", "\n", "U+000B", "\f", "\r", " ", "U+00A0", "U+1680", "U+2000", "U+2001",
     "U+2002", "U+2003", "U+2004", "U+2005", "U+2006", "U+2007", "U+2008", "U+2009",
     "U+200A", "U+2028", "U+2029", "U+202F", "U+205F", "U+3000", "U+FEFF"}

\* JS undefined / a defined string, for values that may be undefined
Undefined == [def |-> FALSE, val |-> Empty]
Str(s) == [def |-> TRUE, val |-> s]

NoError == [text |-> "none", status |-> 0, body |-> "none"]
Error(text) == [text |-> text, status |-> 0, body |-> "none"]
ErrorWith(text, status, body) == [text |-> text, status |-> status, body |-> body]

\* Error messages of src/main.js
MsgNoAuth == "No authentication method available"
MsgTokenFailed == "Failed to get access token"
MsgNoProject == "Could not determine current GCP project"
MsgProjectUnset == "No project is set in gcloud configuration"
MsgAuthFailed == "Authentication failed"
MsgPermissionDenied == "Permission denied"
MsgListFailed == "Failed to list buckets"
MsgSyntaxError == "SyntaxError"
MsgTypeError == "TypeError"
MsgInvalidCharacterError == "InvalidCharacterError"
MsgDataError == "DataError"
MsgNotFound == "NotFound"
MsgRetrieveFailed == "Failed to retrieve GCS buckets"

(***************************************************************************)
(* Texts that the code hands to JSON.parse: an empty text, a text that is  *)
(* not JSON, or a JSON object with the fields the code reads.              *)
(***************************************************************************)
NoText == [form |-> "empty", private_key |-> "none", project_id |-> Empty,
           client_email |-> Empty]
Garbage == [form |-> "garbage", private_key |-> "none", project_id |-> Empty,
            client_email |-> Empty]
\* private_key of a service-account JSON: a PKCS#8 PEM, a PEM whose body is
\* base64 but no PKCS#8 key, a text whose body is not base64, or no field
PrivateKeys == {"good", "not_der", "not_base64", "absent"}

KeyTexts(pid, email) ==
    {t \in [form : {"object"}, private_key : PrivateKeys, project_id : {Empty, pid},
             client_email : {email}] :
        \* one text for every key that does not import
        t.private_key # "good" => t.project_id = pid}

\* JSON.parse: throws SyntaxError on anything that is not JSON
JsonParse(text) ==
    IF text.form = "object"
    THEN [ok |-> TRUE,
          value |-> [private_key |-> text.private_key, project_id |-> text.project_id,
                     client_email |-> text.client_email]]
    ELSE [ok |-> FALSE,
          value |-> [private_key |-> "none", project_id |-> Empty, client_email |-> Empty]]

\* String.prototype.trim on a sequence of characters
RECURSIVE TrimLeft(_)
TrimLeft(s) ==
    IF s = Empty THEN Empty
    ELSE IF Head(s) \in WhiteSpace THEN TrimLeft(Tail(s)) ELSE s

RECURSIVE TrimRight(_)
TrimRight(s) ==
    IF s = Empty THEN Empty
    ELSE IF s[Len(s)] \in WhiteSpace THEN TrimRight(SubSeq(s, 1, Len(s) - 1)) ELSE s

Trim(s) == TrimRight(TrimLeft(s))

\* Response.ok
Ok(status) == status >= 200 /\ status <= 299

(***************************************************************************)
(* The assertion of getServiceAccountToken.  A text is a sequence of       *)
(* characters, a binary string a sequence of character codes 0..255.       *)
(***************************************************************************)
\* the printable ASCII characters, from code 32 to code 126 (code 96, the grave
\* accent, is spelled out: no text here holds it)
Ascii ==
    <<" ", "!", "\"", "#", "$", "%", "&", "'", "(", ")", "*", "+", ",", "-", ".", "/",
      "0", "1", "2", "3", "4", "5", "6", "7", "8", "9", ":", ";", "<", "=", ">", "?",
      "@", "A", "B", "C", "D", "E", "F", "G", "H", "I", "J", "K", "L", "M", "N", "O",
      "P", "Q", "R", "S", "T", "U", "V", "W", "X", "Y", "Z", "[", "\\", "]", "^", "_",
      "grave", "a", "b", "c", "d", "e", "f", "g", "h", "i", "j", "k", "l", "m", "n", "o",
      "p", "q", "r", "s", "t", "u", "v", "w", "x", "y", "z", "{", "|", "}", "~">>

\* String.prototype.charCodeAt, for one character
CharCode ==
    [c \in {Ascii[i] : i \in 1..Len(Ascii)} |->
        31 + CHOOSE i \in 1..Len(Ascii) : Ascii[i] = c]

CharCodes(text) == [i \in 1..Len(text) |-> CharCode[text[i]]]

Base64Alphabet ==
    <<"A", "B", "C", "D", "E", "F", "G", "H", "I", "J", "K", "L", "M", "N", "O", "P",
      "Q", "R", "S", "T", "U", "V", "W", "X", "Y", "Z", "a", "b", "c", "d", "e", "f",
      "g", "h", "i", "j", "k", "l", "m", "n", "o", "p", "q", "r", "s", "t", "u", "v",
      "w", "x", "y", "z", "0", "1", "2", "3", "4", "5", "6", "7", "8", "9", "+", "/">>

\* btoa: three bytes become four characters; an incomplete last group is
\* filled with "="
Btoa(binary) ==
    LET n == Len(binary)
        Byte(i) == IF i <= n THEN binary[i] ELSE 0
        Sextet(g, k) ==
            LET b1 == Byte(3 * g - 2)
                b2 == Byte(3 * g - 1)
                b3 == Byte(3 * g)
            IN  CASE k = 1 -> b1 \div 4
                  [] k = 2 -> ((b1 % 4) * 16) + (b2 \div 16)
                  [] k = 3 -> ((b2 % 16) * 4) + (b3 \div 64)
                  [] k = 4 -> b3 % 64
        Char(g, k) ==
            IF (k = 3 /\ 3 * g - 1 > n) \/ (k = 4 /\ 3 * g > n)
            THEN "="
            ELSE Base64Alphabet[Sextet(g, k) + 1]
    IN  [j \in 1..(4 * ((n + 2) \div 3)) |-> Char(((j - 1) \div 4) + 1, ((j - 1) % 4) + 1)]

\* String.prototype.replace(/a/g, b) for one character
ReplaceAll(text, a, b) == [i \in 1..Len(text) |-> IF text[i] = a THEN b ELSE text[i]]

\* String.prototype.replace(/=+$/, "")
RECURSIVE StripPadding(_)
StripPadding(text) ==
    IF text # Empty /\ text[Len(text)] = "="
    THEN StripPadding(SubSeq(text, 1, Len(text) - 1))
    ELSE text

\* a non-negative integer as JSON.stringify writes it
RECURSIVE Decimal(_)
Decimal(n) ==
    LET digit == <<"0", "1", "2", "3", "4", "5", "6", "7", "8", "9">>[(n % 10) + 1]
    IN  IF n < 10 THEN <<digit>> ELSE Append(Decimal(n \div 10), digit)

\* JSON.stringify of a string that needs no escape, and of an object member
JsonString(text) == <<"\"">> \o text \o <<"\"">>
JsonMember(key, json) == JsonString(key) \o <<":">> \o json

Scope ==
    <<"h", "t", "t", "p", "s", ":", "/", "/", "w", "w", "w", ".", "g", "o", "o", "g",
      "l", "e", "a", "p", "i", "s", ".", "c", "o", "m", "/", "a", "u", "t", "h", "/",
      "c", "l", "o", "u", "d", "-", "p", "l", "a", "t", "f", "o", "r", "m">>

Aud ==
    <<"h", "t", "t", "p", "s", ":", "/", "/", "o", "a", "u", "t", "h", "2", ".", "g",
      "o", "o", "g", "l", "e", "a", "p", "i", "s", ".", "c", "o", "m", "/", "t", "o",
      "k", "e", "n">>

\* const header = { alg: "RS256", typ: "JWT" }, as JSON.stringify writes it
HeaderJson ==
    <<"{">> \o JsonMember(<<"a", "l", "g">>, JsonString(<<"R", "S", "2", "5", "6">>))
        \o <<",">> \o JsonMember(<<"t", "y", "p">>, JsonString(<<"J", "W", "T">>))
        \o <<"}">>

\* mutant of ClaimSet: the expiry is taken from the clock in milliseconds
ClaimSet_ExpFromMs(serviceAccountKey, ms) ==
    LET now == ms \div 1000
    IN  [iss |-> serviceAccountKey.client_email,
         scope |-> Scope,
         aud |-> Aud,
         exp |-> ms + 3600,
         iat |-> now]

\* const now, const claimSet; ms is Date.now()
ClaimSet(serviceAccountKey, ms) ==
    LET now == ms \div 1000
    IN  [iss |-> serviceAccountKey.client_email,
         scope |-> Scope,
         aud |-> Aud,
         exp |-> now + 3600,
         iat |-> now]

ClaimSetJson(claimSet) ==
    <<"{">> \o JsonMember(<<"i", "s", "s">>, JsonString(claimSet.iss))
        \o <<",">> \o JsonMember(<<"s", "c", "o", "p", "e">>, JsonString(claimSet.scope))
        \o <<",">> \o JsonMember(<<"a", "u", "d">>, JsonString(claimSet.aud))
        \o <<",">> \o JsonMember(<<"e", "x", "p">>, Decimal(claimSet.exp))
        \o <<",">> \o JsonMember(<<"i", "a", "t">>, Decimal(claimSet.iat))
        \o <<"}">>

\* const base64Header
Base64Header == Btoa(CharCodes(HeaderJson))

\* Date.now() at the moment of the call, in milliseconds
ClockMs == {999, 6400000, 2147480000}

\* client_email of the three service-account keys
InlineEmail == <<"a", "@", "b", ".", "c">>
CredFileEmail == <<"a", "b", "@", "b", ".", "c">>
DefaultEmail == <<"a", "b", "c", "@", "b", ".", "c">>

\* const base64ClaimSet, for every key and every reading of the clock
Base64ClaimSet ==
    [iss \in {InlineEmail, CredFileEmail, DefaultEmail}, ms \in ClockMs |->
        Btoa(CharCodes(ClaimSetJson(ClaimSet([client_email |-> iss], ms))))]

\* the assertion before it is signed: its claim set and its first two segments
SignatureBase(serviceAccountKey, ms) ==
    LET claimSet == ClaimSet(serviceAccountKey, ms)
    IN  [claimSet |-> claimSet,
         base64Header |-> Base64Header,
         base64ClaimSet |-> Base64ClaimSet[serviceAccountKey.client_email, ms],
         signature |-> Empty]

\* const signature; signatureUint8 is the binary signature crypto.subtle.sign
\* returned
Signature(signatureUint8) ==
    StripPadding(ReplaceAll(ReplaceAll(Btoa(signatureUint8), "+", "-"), "/", "_"))

\* the assertion: its claim set and its three segments
Jwt(serviceAccountKey, ms, signatureUint8) ==
    [SignatureBase(serviceAccountKey, ms) EXCEPT !.signature = Signature(signatureUint8)]

NoJwt == [claimSet |-> [iss |-> Empty, scope |-> Empty, aud |-> Empty, exp |-> 0, iat |-> 0],
          base64Header |-> Empty, base64ClaimSet |-> Empty, signature |-> Empty]

\* signatures: real ones are as long as the key's modulus
Signatures == {<<251, 255, 254>>, <<0, 16>>}

(***************************************************************************)
(* Process-wide configuration.  A permission is "granted" or "denied"; the *)
(* code never reads a value whose permission is not granted, so a denied   *)
(* variable or file is listed once, with no value.                         *)
(***************************************************************************)
EnvVar(vals, unset) ==
    {[perm |-> "denied", val |-> unset]}
        \cup {[perm |-> "granted", val |-> v] : v \in vals \cup {unset}}

Files(pid, email) ==
    {[perm |-> "denied", exists |-> FALSE, text |-> NoText],
     [perm |-> "granted", exists |-> FALSE, text |-> NoText]}
        \cup {[perm |-> "granted", exists |-> TRUE, text |-> t] :
                t \in KeyTexts(pid, email) \cup {Garbage}}

EnvProject == <<"e">>       \* value of GCP_PROJECT_ID when set
InlineProject == <<"i">>    \* project_id of the inline service account
CredFileProject == <<"f">>  \* project_id of the GOOGLE_APPLICATION_CREDENTIALS file
DefaultProject == <<"d">>   \* project_id of ./service-account.json
EnvToken == <<"k">>         \* value of CLOUD_ACCESS_TOKEN when set
CredPath == <<"p">>         \* value of GOOGLE_APPLICATION_CREDENTIALS when set
NoFile == [perm |-> "denied", exists |-> FALSE, text |-> NoText]

Envs ==
    {e \in [GCP_PROJECT_ID : EnvVar({EnvProject}, Empty),
            GCP_SERVICE_ACCOUNT : EnvVar(KeyTexts(InlineProject, InlineEmail) \cup {Garbage}, NoText),
            GOOGLE_APPLICATION_CREDENTIALS : EnvVar({CredPath}, Empty),
            CLOUD_ACCESS_TOKEN : EnvVar({EnvToken}, Empty),
            credFile : Files(CredFileProject, CredFileEmail),
            defaultFile : Files(DefaultProject, DefaultEmail)] :
        \* the file behind GOOGLE_APPLICATION_CREDENTIALS is only looked at
        \* when the variable names it
        e.GOOGLE_APPLICATION_CREDENTIALS.val = Empty => e.credFile = NoFile}

(***************************************************************************)
(* Answers of the external collaborators                                   *)
(***************************************************************************)
AccessTokenValue == <<"a">>

\* body of an HTTP answer: text() gives .text, json() parses .form
TokenBodies ==
    {[text |-> "token_json", form |-> "object", access_token |-> Str(AccessTokenValue)],
     [text |-> "empty_json", form |-> "object", access_token |-> Undefined],
     [text |-> "bad_request", form |-> "garbage", access_token |-> Undefined]}

TokenStatuses == {200, 300, 400}

TokenResponses == [status : TokenStatuses, body : TokenBodies]

NoTokenResp ==
    [status |-> 0,
     body |-> [text |-> "none", form |-> "garbage", access_token |-> Undefined]]

\* result of Deno.Command(...).output(): the spawn may throw, the process
\* may exit with failure, or it succeeds with some standard output
CliChars == {" ", "\n", "c"}

RECURSIVE SeqsUpTo(_, _)
SeqsUpTo(S, n) ==
    IF n = 0 THEN {Empty}
    ELSE LET shorter == SeqsUpTo(S, n - 1)
         IN  shorter \cup {Append(s, x) : s \in shorter, x \in S}

CliResults ==
    {[kind |-> "spawn_error", stdout |-> Empty], [kind |-> "fail", stdout |-> Empty]}
        \cup {[kind |-> "ok", stdout |-> o] : o \in SeqsUpTo(CliChars, MaxOut)}

NoCliResult == [kind |-> "none", stdout |-> Empty]

\* bucket resources as the provider returns them
Bucket(n) ==
    [name |-> n, location |-> "US", timeCreated |-> "2024", storageClass |-> "STANDARD",
     id |-> n + 100]

ItemLists == {[i \in 1..n |-> Bucket(i)] : n \in 0..MaxItems}

ListBodies ==
    {[text |-> "no_items", form |-> "object", hasItems |-> FALSE, items |-> Empty],
     [text |-> "denied", form |-> "garbage", hasItems |-> FALSE, items |-> Empty]}
        \cup {[text |-> "items", form |-> "object", hasItems |-> TRUE, items |-> i] :
                i \in ItemLists}

ListStatuses == {200, 299, 300, 401, 403}

\* an answer outside 2xx carries the error text, an answer in 2xx any body
ListResponses ==
    {r \in [status : ListStatuses, body : ListBodies] :
        ~Ok(r.status) => r.body.text = "denied"}

NoListResp ==
    [status |-> 0,
     body |-> [text |-> "none", form |-> "garbage", hasItems |-> FALSE, items |-> Empty]]

(***************************************************************************)
(* Responses of the handler                                                *)
(***************************************************************************)
NoResponse ==
    [status |-> 0, kind |-> "none", error |-> "none", details |-> NoError,
     count |-> 0, buckets |-> Empty]

HtmlResponse == [NoResponse EXCEPT !.status = 200, !.kind = "html"]

NotFoundResponse == [NoResponse EXCEPT !.status = 404, !.kind = "text"]

MethodNotAllowedResponse ==
    [NoResponse EXCEPT !.status = 405, !.kind = "json", !.error = "Method not allowed"]

ErrorResponse(e) ==
    [NoResponse EXCEPT !.status = 500, !.kind = "json", !.error = MsgRetrieveFailed,
                       !.details = e]

BucketSummary(b) ==
    [name |-> b.name, location |-> b.location, created |-> b.timeCreated,
     storageClass |-> b.storageClass, id |-> b.id]

\* mutant of BucketsResponse: the entries are listed last bucket first
BucketsResponse_Reversed(buckets) ==
    [NoResponse EXCEPT !.status = 200, !.kind = "json", !.count = Len(buckets),
                       !.buckets = [i \in 1..Len(buckets) |->
                                        BucketSummary(buckets[Len(buckets) + 1 - i])]]

BucketsResponse(buckets) ==
    [NoResponse EXCEPT !.status = 200, !.kind = "json", !.count = Len(buckets),
                       !.buckets = [i \in 1..Len(buckets) |-> BucketSummary(buckets[i])]]

\* a settled call: a returned value or a thrown error
\* a template literal's rendering of a value: a string as it is, undefined as
\* the text "undefined"
TemplateString(v) ==
    IF v.def THEN v.val ELSE <<"u", "n", "d", "e", "f", "i", "n", "e", "d">>

\* the fetch of listBuckets: the project in its URL and its Authorization header
ListRequest(project, tok) ==
    [project |-> project,
     authorization |-> <<"B", "e", "a", "r", "e", "r", " ">> \o TemplateString(tok)]

NoRequest == [project |-> Empty, authorization |-> Empty]

\* the settled promise of an async function of the program: value holds the
\* string getAccessToken or getCurrentProject returned, items the array
\* listBuckets returned
NoResult ==
    [settled |-> FALSE, threw |-> FALSE, error |-> NoError, value |-> Undefined,
     items |-> Empty]
Return(v) ==
    [settled |-> TRUE, threw |-> FALSE, error |-> NoError, value |-> v, items |-> Empty]
Throw(e) ==
    [settled |-> TRUE, threw |-> TRUE, error |-> e, value |-> Undefined, items |-> Empty]
ReturnItems(items) ==
    [settled |-> TRUE, threw |-> FALSE, error |-> NoError, value |-> Undefined,
     items |-> items]

NoExchange == [called |-> FALSE, threw |-> FALSE, error |-> NoError, value |-> Undefined]

\* no answer received yet; on: whether the answers are kept
NoAnswers(on) ==
    [on |-> on, token |-> <<>>, cliToken |-> NoCliResult, cliProject |-> NoCliResult,
     list |-> NoListResp]

\* the variables of a request that has not been handled yet
IdleContext(on) ==
    [pc |-> "idle", method |-> "none", path |-> "none", src |-> 0, psrc |-> 0,
     ret |-> NoResult, token |-> Undefined, projectId |-> Empty, response |-> NoResponse,
     tried |-> <<>>, ptried |-> <<>>, posts |-> 0, gets |-> 0, tokenResp |-> NoTokenResp,
     exch |-> NoExchange, listResp |-> NoListResp, cliToken |-> NoCliResult,
     cliProject |-> NoCliResult, caught |-> <<>>, thrown |-> NoError, pending |-> {},
     assertion |-> NoJwt, listReq |-> NoRequest, answers |-> NoAnswers(on)]

Init ==
    /\ env \in Envs
    /\ answers = NoAnswers(FALSE)
    /\ rid = 1
    /\ other = IdleContext(FALSE)
    /\ pc = "idle"
    /\ method = "none"
    /\ path = "none"
    /\ src = 0
    /\ psrc = 0
    /\ ret = NoResult
    /\ token = Undefined
    /\ projectId = Empty
    /\ response = NoResponse
    /\ tried = <<>>
    /\ ptried = <<>>
    /\ posts = 0
    /\ gets = 0
    /\ tokenResp = NoTokenResp
    /\ exch = NoExchange
    /\ listResp = NoListResp
    /\ cliToken = NoCliResult
    /\ cliProject = NoCliResult
    /\ caught = <<>>
    /\ thrown = NoError
    /\ pending = {}
    /\ assertion = NoJwt
    /\ listReq = NoRequest

(***************************************************************************)
(* Request handler: routing                                                *)
(***************************************************************************)
Methods == {"GET", "POST"}
Paths == {"/", "/api/buckets", "/other"}

\* mutant of Fail: the catch answers with the error body but status 200
Fail_Status200(e) ==
    /\ thrown' = e
    /\ response' = [ErrorResponse(e) EXCEPT !.status = 200]
    /\ pc' = "done"

\* mutant of Fail: the catch keeps the error and answers nothing
Fail_NoAnswer(e) ==
    /\ thrown' = e
    /\ response' = NoResponse
    /\ pc' = "failed"

\* an error reaches the handler's catch and becomes the 500 response
Fail(e) ==
    /\ thrown' = e
    /\ response' = ErrorResponse(e)
    /\ pc' = "done"

\* mutant of Handle: the path is looked at before the method
Handle_PathFirst(m, p) ==
    /\ pc = "idle"
    /\ method' = m
    /\ path' = p
    /\ IF p = "/"
       THEN /\ response' = HtmlResponse
            /\ pc' = "done"
            /\ src' = src
       ELSE IF m # "GET"
            THEN /\ response' = MethodNotAllowedResponse
                 /\ pc' = "done"
                 /\ src' = src
            ELSE IF p = "/api/buckets"
                 THEN /\ response' = response
                      /\ pc' = "token"
                      /\ src' = 1
                 ELSE /\ response' = NotFoundResponse
                      /\ pc' = "done"
                      /\ src' = src
    /\ UNCHANGED <<env, psrc, ret, token, projectId, tried, ptried, posts, gets, listReq,
                   tokenResp, exch, listResp, cliToken, cliProject, caught, thrown,
                   pending, assertion, answers, rid, other>>

Handle(m, p) ==
    /\ pc = "idle"
    /\ method' = m
    /\ path' = p
    /\ IF m = "GET"
       THEN IF p = "/"
            THEN /\ response' = HtmlResponse
                 /\ pc' = "done"
                 /\ src' = src
            ELSE IF p = "/api/buckets"
                 THEN /\ response' = response
                      /\ pc' = "token"
                      /\ src' = 1
                 ELSE /\ response' = NotFoundResponse
                      /\ pc' = "done"
                      /\ src' = src
       ELSE /\ response' = MethodNotAllowedResponse
            /\ pc' = "done"
            /\ src' = src
    /\ UNCHANGED <<env, psrc, ret, token, projectId, tried, ptried, posts, gets, listReq,
                   tokenResp, exch, listResp, cliToken, cliProject, caught, thrown,
                   pending, assertion, answers, rid, other>>

(***************************************************************************)
(* getServiceAccountToken                                                  *)
(***************************************************************************)
\* cutting the PEM body out of private_key and decoding it: substring of
\* undefined throws TypeError, atob of a text that is not base64 throws
\* InvalidCharacterError
BinaryDer(credentials) ==
    IF credentials.private_key = "absent"
    THEN [ok |-> FALSE, error |-> Error(MsgTypeError)]
    ELSE IF credentials.private_key = "not_base64"
         THEN [ok |-> FALSE, error |-> Error(MsgInvalidCharacterError)]
         ELSE [ok |-> TRUE, error |-> NoError]

\* await crypto.subtle.importKey: rejects a body that is no PKCS#8 key
ImportKey(credentials) ==
    IF credentials.private_key = "good"
    THEN [ok |-> TRUE, error |-> NoError]
    ELSE [ok |-> FALSE, error |-> Error(MsgDataError)]

\* whether getServiceAccountToken gets as far as a signing key
BuildJwt(credentials) ==
    IF BinaryDer(credentials).ok THEN ImportKey(credentials) ELSE BinaryDer(credentials)

\* mutant of ExchangeResult: the error message leaves out the answer's body
ExchangeResult_NoBody(resp) ==
    IF ~Ok(resp.status)
    THEN [called |-> TRUE, threw |-> TRUE,
          error |-> ErrorWith(MsgTokenFailed, resp.status, "none"),
          value |-> Undefined]
    ELSE IF resp.body.form # "object"
         THEN [called |-> TRUE, threw |-> TRUE, error |-> Error(MsgSyntaxError),
               value |-> Undefined]
         ELSE [called |-> TRUE, threw |-> FALSE, error |-> NoError,
               value |-> resp.body.access_token]

\* what getServiceAccountToken does with the answer of the token endpoint
ExchangeResult(resp) ==
    IF ~Ok(resp.status)
    THEN [called |-> TRUE, threw |-> TRUE,
          error |-> ErrorWith(MsgTokenFailed, resp.status, resp.body.text),
          value |-> Undefined]
    ELSE IF resp.body.form # "object"
         THEN [called |-> TRUE, threw |-> TRUE, error |-> Error(MsgSyntaxError),
               value |-> Undefined]
         ELSE [called |-> TRUE, threw |-> FALSE, error |-> NoError,
               value |-> resp.body.access_token]

(***************************************************************************)
(* getAccessToken                                                          *)
(***************************************************************************)
\* the step of the current source ends without a return
NextSource ==
    /\ pc' = "token"
    /\ src' = src + 1
    /\ UNCHANGED <<posts, exch, tokenResp, caught, ret, assertion>>

\* mutant of Swallow: the catch block rethrows e
Swallow_Rethrow(e) ==
    /\ ret' = Throw(e)
    /\ pc' = "token_ret"
    /\ src' = src
    /\ caught' = Append(caught, [src |-> src, error |-> e])
    /\ UNCHANGED <<posts, exch, tokenResp, assertion>>

\* the catch block of the current source swallows e
Swallow(e) ==
    /\ pc' = "token"
    /\ src' = src + 1
    /\ caught' = Append(caught, [src |-> src, error |-> e])
    /\ UNCHANGED <<posts, exch, tokenResp, ret, assertion>>

\* mutant of ServiceAccountTokenThrew: the current source is attempted again
ServiceAccountTokenThrew_Retry(e) ==
    /\ pc' = "token"
    /\ src' = src
    /\ caught' = Append(caught, [src |-> src, error |-> e])
    /\ ret' = ret

\* an error thrown by getServiceAccountToken arrives in getAccessToken, inside
\* the try block of the current source
ServiceAccountTokenThrew(e) ==
    /\ pc' = "token"
    /\ src' = src + 1
    /\ caught' = Append(caught, [src |-> src, error |-> e])
    /\ ret' = ret

\* getAccessToken returns v to listBuckets
ReturnToken(v) ==
    /\ ret' = Return(v)
    /\ pc' = "token_ret"
    /\ src' = src

\* an I/O operation of the step of source k: a file read, the POST to the
\* token endpoint, a gcloud subprocess, the GET of the bucket list
Io(op, k) == [op |-> op, src |-> k]

\* return await getServiceAccountToken(credentials), up to its first await:
\* the claim set and the first two segments are made, the key is decoded.  A
\* throw on the way rejects the promise of the call, which the caller awaits
CallServiceAccountToken(credentials) ==
    LET binaryDer == BinaryDer(credentials)
    IN  /\ tokenResp' = NoTokenResp
        /\ IF binaryDer.ok
           THEN /\ \E ms \in ClockMs : assertion' = SignatureBase(credentials, ms)
                /\ pc' = "import"
                /\ exch' = [NoExchange EXCEPT !.called = TRUE]
                /\ UNCHANGED <<src, caught, ret>>
           ELSE /\ exch' = [NoExchange EXCEPT !.called = TRUE, !.threw = TRUE,
                                              !.error = binaryDer.error]
                /\ pc' = "sa_ret"
                /\ assertion' = assertion
                /\ UNCHANGED <<src, caught, ret>>
        /\ posts' = posts

\* the credentials getServiceAccountToken was called with at source k
Credentials(k) ==
    CASE k = 1 -> JsonParse(env.GCP_SERVICE_ACCOUNT.val).value
      [] k = 2 -> JsonParse(env.credFile.text).value
      [] k = 4 -> JsonParse(env.defaultFile.text).value

\* await crypto.subtle.importKey settles; on a key, crypto.subtle.sign is called
ImportKeyAnswer ==
    /\ pc = "import"
    /\ LET cryptoKey == ImportKey(Credentials(src))
       IN  IF cryptoKey.ok
           THEN /\ pc' = "sign"
                /\ UNCHANGED <<src, caught, ret, exch, assertion>>
           ELSE /\ exch' = [exch EXCEPT !.threw = TRUE, !.error = cryptoKey.error]
                /\ pc' = "sa_ret"
                /\ assertion' = NoJwt
                /\ UNCHANGED <<src, caught, ret>>
    /\ UNCHANGED <<env, method, path, psrc, token, projectId, response, tried, ptried, posts,
                   gets, listReq, tokenResp, listResp, cliToken, cliProject, thrown, pending,
                   answers, rid, other>>

\* mutant of SignAnswer: the fetch is issued and not awaited
SignAnswer_NoAwait(signatureUint8) ==
    /\ pc = "sign"
    /\ assertion' = [assertion EXCEPT !.signature = Signature(signatureUint8)]
    /\ posts' = posts + 1
    /\ pending' = pending \cup {Io("post", src)}
    /\ pc' = "token"
    /\ src' = src + 1
    /\ UNCHANGED <<env, method, path, psrc, ret, token, projectId, response, tried,
                   ptried, gets, listReq, tokenResp, exch, listResp, cliToken, cliProject, caught,
                   thrown, answers, rid, other>>

\* await crypto.subtle.sign settles; the assertion is completed and posted to
\* the token endpoint
SignAnswer(signatureUint8) ==
    /\ pc = "sign"
    /\ assertion' = [assertion EXCEPT !.signature = Signature(signatureUint8)]
    /\ posts' = posts + 1
    /\ pending' = pending \cup {Io("post", src)}
    /\ pc' = "exchange"
    /\ src' = src
    /\ UNCHANGED <<env, method, path, psrc, ret, token, projectId, response, tried,
                   ptried, gets, listReq, tokenResp, exch, listResp, cliToken, cliProject, caught,
                   thrown, answers, rid, other>>

\* a granted read of a file: the text, or a throw when the file is missing
ReadTextFile(file) ==
    IF file.exists THEN [ok |-> TRUE, text |-> file.text]
    ELSE [ok |-> FALSE, text |-> NoText]

\* the credentials of a service-account file, or the error thrown on the way
FileCredentials(file) ==
    LET read == ReadTextFile(file)
        parsed == JsonParse(read.text)
    IN  IF ~read.ok THEN [ok |-> FALSE, error |-> Error(MsgNotFound), value |-> parsed.value]
        ELSE IF ~parsed.ok
             THEN [ok |-> FALSE, error |-> Error(MsgSyntaxError), value |-> parsed.value]
             ELSE [ok |-> TRUE, error |-> NoError, value |-> parsed.value]

TryInline ==
    /\ pc = "token"
    /\ src = 1
    /\ tried' = Append(tried, 1)
    /\ pending' = pending
    /\ LET v == env.GCP_SERVICE_ACCOUNT
       IN  IF v.perm = "granted" /\ v.val.form # "empty"
           THEN LET parsed == JsonParse(v.val)
                IN  IF parsed.ok
                    THEN CallServiceAccountToken(parsed.value)
                    ELSE Swallow(Error(MsgSyntaxError))
           ELSE NextSource
    /\ UNCHANGED <<env, method, path, psrc, token, projectId, response, ptried, gets, listReq,
                   listResp, cliToken, cliProject, thrown, answers, rid, other>>

\* the permission query for GOOGLE_APPLICATION_CREDENTIALS has answered; when
\* the variable names a file, the read permission for it is queried
TryCredFile ==
    /\ pc = "token"
    /\ src = 2
    /\ tried' = Append(tried, 2)
    /\ pending' = pending
    /\ LET v == env.GOOGLE_APPLICATION_CREDENTIALS
       IN  IF v.perm = "granted" /\ v.val # Empty
           THEN /\ pc' = "file_perm"
                /\ UNCHANGED <<src, posts, exch, tokenResp, caught, ret, assertion>>
           ELSE NextSource
    /\ UNCHANGED <<env, method, path, psrc, token, projectId, response, ptried, gets, listReq,
                   listResp, cliToken, cliProject, thrown, answers, rid, other>>

\* the read permission for the named file has answered; when it is granted,
\* the file is read
CredFilePermission ==
    /\ pc = "file_perm"
    /\ src = 2
    /\ IF env.credFile.perm = "granted"
       THEN /\ pc' = "file_read"
            /\ pending' = pending \cup {Io("read", src)}
            /\ UNCHANGED <<src, posts, exch, tokenResp, caught, ret, assertion>>
       ELSE /\ NextSource
            /\ pending' = pending
    /\ UNCHANGED <<env, method, path, psrc, token, projectId, response, tried, ptried, gets,
                   listReq, listResp, cliToken, cliProject, thrown, answers, rid, other>>

\* Deno.readTextFile of the named file has settled
CredFileRead ==
    /\ pc = "file_read"
    /\ src = 2
    /\ pending' = pending \ {Io("read", src)}
    /\ LET c == FileCredentials(env.credFile)
       IN  IF c.ok THEN CallServiceAccountToken(c.value)
           ELSE Swallow(c.error)
    /\ UNCHANGED <<env, method, path, psrc, token, projectId, response, tried, ptried, gets,
                   listReq, listResp, cliToken, cliProject, thrown, answers, rid, other>>

\* mutant of TryCloudToken: the value of CLOUD_ACCESS_TOKEN is exchanged at the
\* token endpoint like a service-account assertion
TryCloudToken_Exchange ==
    /\ pc = "token"
    /\ src = 3
    /\ tried' = Append(tried, 3)
    /\ LET v == env.CLOUD_ACCESS_TOKEN
       IN  IF v.perm = "granted" /\ v.val # Empty
           THEN /\ posts' = posts + 1
                /\ pending' = pending \cup {Io("post", src)}
                /\ pc' = "exchange"
                /\ exch' = [NoExchange EXCEPT !.called = TRUE]
                /\ UNCHANGED <<src, tokenResp, caught, ret, assertion>>
           ELSE /\ NextSource
                /\ pending' = pending
    /\ UNCHANGED <<env, method, path, psrc, token, projectId, response, ptried, gets, listReq,
                   listResp, cliToken, cliProject, thrown, answers, rid, other>>

TryCloudToken ==
    /\ pc = "token"
    /\ src = 3
    /\ tried' = Append(tried, 3)
    /\ pending' = pending
    /\ LET v == env.CLOUD_ACCESS_TOKEN
       IN  IF v.perm = "granted" /\ v.val # Empty
           THEN /\ ReturnToken(Str(v.val))
                /\ UNCHANGED <<posts, exch, tokenResp, caught, assertion>>
           ELSE NextSource
    /\ UNCHANGED <<env, method, path, psrc, token, projectId, response, ptried, gets, listReq,
                   listResp, cliToken, cliProject, thrown, answers, rid, other>>

\* the read permission for ./service-account.json has answered; when it is
\* granted, the file is read
TryDefaultFile ==
    /\ pc = "token"
    /\ src = 4
    /\ tried' = Append(tried, 4)
    /\ IF env.defaultFile.perm = "granted"
       THEN /\ pc' = "file_read"
            /\ pending' = pending \cup {Io("read", src)}
            /\ UNCHANGED <<src, posts, exch, tokenResp, caught, ret, assertion>>
       ELSE /\ NextSource
            /\ pending' = pending
    /\ UNCHANGED <<env, method, path, psrc, token, projectId, response, ptried, gets, listReq,
                   listResp, cliToken, cliProject, thrown, answers, rid, other>>

\* Deno.readTextFile of ./service-account.json has settled
DefaultFileRead ==
    /\ pc = "file_read"
    /\ src = 4
    /\ pending' = pending \ {Io("read", src)}
    /\ LET c == FileCredentials(env.defaultFile)
       IN  IF c.ok THEN CallServiceAccountToken(c.value)
           ELSE Swallow(c.error)
    /\ UNCHANGED <<env, method, path, psrc, token, projectId, response, tried, ptried, gets,
                   listReq, listResp, cliToken, cliProject, thrown, answers, rid, other>>

\* the token endpoint answers the POST of getServiceAccountToken: the fetch
\* settles, the body is still to be read
TokenAnswer(resp) ==
    /\ pc = "exchange"
    /\ tokenResp' = resp
    /\ pending' = pending \ {Io("post", src)}
    /\ assertion' = NoJwt
    /\ answers' = IF answers.on THEN [answers EXCEPT !.token = Append(@, resp)] ELSE answers
    /\ pc' = "exchange_body"
    /\ UNCHANGED <<env, method, path, src, psrc, ret, token, projectId, response, tried,
                   ptried, posts, gets, listReq, exch, listResp, cliToken, cliProject, caught,
                   thrown, rid, other>>

\* await tokenResponse.text() or await tokenResponse.json() has settled:
\* getServiceAccountToken throws or returns, which settles its promise
TokenBody ==
    /\ pc = "exchange_body"
    /\ exch' = ExchangeResult(tokenResp)
    /\ pc' = "sa_ret"
    /\ UNCHANGED <<env, method, path, src, psrc, ret, token, projectId, response, tried,
                   ptried, posts, gets, listReq, tokenResp, listResp, cliToken, cliProject,
                   caught, thrown, pending, assertion, answers, rid, other>>

\* return await getServiceAccountToken(credentials) resumes in getAccessToken:
\* a value is returned to listBuckets, an error goes to the catch of the source
AwaitServiceAccountToken ==
    /\ pc = "sa_ret"
    /\ IF exch.threw
       THEN ServiceAccountTokenThrew(exch.error)
       ELSE /\ ReturnToken(exch.value)
            /\ caught' = caught
    /\ UNCHANGED <<env, method, path, psrc, token, projectId, response, tried, ptried,
                   posts, gets, listReq, tokenResp, exch, listResp, cliToken, cliProject,
                   thrown, pending, assertion, answers, rid, other>>

TryGcloud ==
    /\ pc = "token"
    /\ src = 5
    /\ tried' = Append(tried, 5)
    /\ pending' = pending \cup {Io("gcloud", src)}
    /\ pc' = "cli_token"
    /\ UNCHANGED <<env, method, path, src, psrc, ret, token, projectId, response,
                   ptried, posts, gets, listReq, tokenResp, exch, listResp, cliToken, cliProject,
                   caught, thrown, assertion, answers, rid, other>>

\* mutant of GcloudToken: the output is not trimmed before it is tested
GcloudToken_NoTrim(result) ==
    IF result.kind = "spawn_error"
    THEN [ok |-> FALSE, caught |-> Error(MsgNotFound), value |-> Empty]
    ELSE IF result.kind = "fail"
         THEN [ok |-> FALSE, caught |-> Error("Failed to get token from gcloud CLI"),
               value |-> Empty]
         ELSE IF result.stdout # Empty
              THEN [ok |-> TRUE, caught |-> NoError, value |-> result.stdout]
              ELSE [ok |-> FALSE, caught |-> NoError, value |-> Empty]

\* mutant of GcloudToken: only the leading white space is removed
GcloudToken_TrimLeftOnly(result) ==
    IF result.kind = "spawn_error"
    THEN [ok |-> FALSE, caught |-> Error(MsgNotFound), value |-> Empty]
    ELSE IF result.kind = "fail"
         THEN [ok |-> FALSE, caught |-> Error("Failed to get token from gcloud CLI"),
               value |-> Empty]
         ELSE IF TrimLeft(result.stdout) # Empty
              THEN [ok |-> TRUE, caught |-> NoError, value |-> TrimLeft(result.stdout)]
              ELSE [ok |-> FALSE, caught |-> NoError, value |-> Empty]

\* what the last step of getAccessToken makes of the CLI's result
GcloudToken(result) ==
    IF result.kind = "spawn_error"
    THEN [ok |-> FALSE, caught |-> Error(MsgNotFound), value |-> Empty]
    ELSE IF result.kind = "fail"
         THEN [ok |-> FALSE, caught |-> Error("Failed to get token from gcloud CLI"),
               value |-> Empty]
         ELSE IF Trim(result.stdout) # Empty
              THEN [ok |-> TRUE, caught |-> NoError, value |-> Trim(result.stdout)]
              ELSE [ok |-> FALSE, caught |-> NoError, value |-> Empty]

GcloudTokenResult(result) ==
    /\ pc = "cli_token"
    /\ cliToken' = result
    /\ pending' = pending \ {Io("gcloud", src)}
    /\ answers' = IF answers.on THEN [answers EXCEPT !.cliToken = result] ELSE answers
    /\ pc' = "token_ret"
    /\ LET r == GcloudToken(result)
       IN  /\ caught' = IF r.caught = NoError THEN caught
                        ELSE Append(caught, [src |-> src, error |-> r.caught])
           /\ ret' = IF r.ok THEN Return(Str(r.value)) ELSE Throw(Error(MsgNoAuth))
    /\ UNCHANGED <<env, method, path, src, psrc, token, projectId, response, tried,
                   ptried, posts, gets, listReq, tokenResp, exch, listResp, cliProject, thrown,
                   assertion, rid, other>>

(***************************************************************************)
(* listBuckets                                                             *)
(***************************************************************************)
\* listBuckets' catch logs the error and throws it again: the promise of
\* listBuckets is rejected
ListBucketsThrew(e) ==
    /\ ret' = Throw(e)
    /\ pc' = "list_ret"

\* mutant of AwaitToken: a throw of getAccessToken does not stop listBuckets
AwaitToken_IgnoreThrow ==
    /\ pc = "token_ret"
    /\ token' = ret.value
    /\ pc' = "project"
    /\ psrc' = 1
    /\ UNCHANGED <<response, thrown>>
    /\ ret' = NoResult
    /\ tokenResp' = NoTokenResp
    /\ exch' = NoExchange
    /\ cliToken' = NoCliResult
    /\ caught' = <<>>
    /\ UNCHANGED <<env, method, path, src, projectId, tried, ptried, posts, gets, listReq,
                   listResp, cliProject, pending, assertion, answers, rid, other>>

\* const token = await getAccessToken(): the call has settled, its locals are
\* gone; a throw goes to listBuckets' catch
AwaitToken ==
    /\ pc = "token_ret"
    /\ IF ret.threw
       THEN /\ ListBucketsThrew(ret.error)
            /\ UNCHANGED <<token, psrc>>
       ELSE /\ token' = ret.value
            /\ pc' = "project"
            /\ psrc' = 1
            /\ ret' = NoResult
    /\ UNCHANGED <<response, thrown>>
    /\ tokenResp' = NoTokenResp
    /\ exch' = NoExchange
    /\ cliToken' = NoCliResult
    /\ caught' = <<>>
    /\ UNCHANGED <<env, method, path, src, projectId, tried, ptried, posts, gets, listReq,
                   listResp, cliProject, pending, assertion, answers, rid, other>>

(***************************************************************************)
(* getCurrentProject                                                       *)
(***************************************************************************)
\* getCurrentProject returns p to listBuckets
ReturnProject(p) ==
    /\ ret' = Return(Str(p))
    /\ pc' = "project_ret"
    /\ psrc' = psrc

NextProjectSource ==
    /\ psrc' = psrc + 1
    /\ pc' = "project"
    /\ ret' = ret

\* credentials.project_id of a text, Empty when the text does not parse or
\* has no project_id
ProjectIdOf(text) ==
    LET parsed == JsonParse(text)
    IN  IF parsed.ok THEN parsed.value.project_id ELSE Empty

\* project_id of a service-account file, Empty when it cannot be read
FileProjectId(file) ==
    LET read == ReadTextFile(file)
    IN  IF file.perm = "granted" /\ read.ok THEN ProjectIdOf(read.text) ELSE Empty

\* project_id of the text a granted read returned, Empty when the read threw
ReadProjectId(file) ==
    LET read == ReadTextFile(file)
    IN  IF read.ok THEN ProjectIdOf(read.text) ELSE Empty

\* mutant of ProjectFromEnv: the permission test is inverted
ProjectFromEnv_Inverted ==
    /\ pc = "project"
    /\ psrc = 1
    /\ ptried' = Append(ptried, 1)
    /\ LET v == env.GCP_PROJECT_ID
       IN  IF v.perm # "granted" /\ v.val # Empty
           THEN ReturnProject(v.val)
           ELSE NextProjectSource
    /\ UNCHANGED <<env, method, path, src, token, projectId, response, tried, posts,
                   gets, listReq, tokenResp, exch, listResp, cliToken, cliProject, caught,
                   thrown, pending, assertion, answers, rid, other>>

\* mutant of ProjectFromEnv: GCP_PROJECT_ID is used only when the token did
\* not come from the inline service account
ProjectFromEnv_TokenBound ==
    /\ pc = "project"
    /\ psrc = 1
    /\ ptried' = Append(ptried, 1)
    /\ LET v == env.GCP_PROJECT_ID
       IN  IF v.perm = "granted" /\ v.val # Empty /\ src # 1
           THEN ReturnProject(v.val)
           ELSE NextProjectSource
    /\ UNCHANGED <<env, method, path, src, token, projectId, response, tried, posts,
                   gets, listReq, tokenResp, exch, listResp, cliToken, cliProject, caught,
                   thrown, pending, assertion, answers, rid, other>>

ProjectFromEnv ==
    /\ pc = "project"
    /\ psrc = 1
    /\ ptried' = Append(ptried, 1)
    /\ LET v == env.GCP_PROJECT_ID
       IN  IF v.perm = "granted" /\ v.val # Empty
           THEN ReturnProject(v.val)
           ELSE NextProjectSource
    /\ UNCHANGED <<env, method, path, src, token, projectId, response, tried, posts,
                   gets, listReq, tokenResp, exch, listResp, cliToken, cliProject, caught,
                   thrown, pending, assertion, answers, rid, other>>

ProjectFromInline ==
    /\ pc = "project"
    /\ psrc = 2
    /\ ptried' = Append(ptried, 2)
    /\ LET v == env.GCP_SERVICE_ACCOUNT
       IN  IF v.perm = "granted" /\ v.val.form # "empty" /\ ProjectIdOf(v.val) # Empty
           THEN ReturnProject(ProjectIdOf(v.val))
           ELSE NextProjectSource
    /\ UNCHANGED <<env, method, path, src, token, projectId, response, tried, posts,
                   gets, listReq, tokenResp, exch, listResp, cliToken, cliProject, caught,
                   thrown, pending, assertion, answers, rid, other>>

ProjectFromCredFile ==
    /\ pc = "project"
    /\ psrc = 3
    /\ ptried' = Append(ptried, 3)
    /\ pending' = pending
    /\ LET v == env.GOOGLE_APPLICATION_CREDENTIALS
       IN  IF v.perm = "granted" /\ v.val # Empty
           THEN /\ pc' = "project_file_perm"
                /\ UNCHANGED <<psrc, ret>>
           ELSE NextProjectSource
    /\ UNCHANGED <<env, method, path, src, token, projectId, response, tried, posts,
                   gets, listReq, tokenResp, exch, listResp, cliToken, cliProject, caught,
                   thrown, assertion, answers, rid, other>>

ProjectCredFilePermission ==
    /\ pc = "project_file_perm"
    /\ psrc = 3
    /\ IF env.credFile.perm = "granted"
       THEN /\ pc' = "project_read"
            /\ pending' = pending \cup {Io("read", psrc)}
            /\ UNCHANGED <<psrc, ret>>
       ELSE /\ NextProjectSource
            /\ pending' = pending
    /\ ptried' = ptried
    /\ UNCHANGED <<env, method, path, src, token, projectId, response, tried, posts,
                   gets, listReq, tokenResp, exch, listResp, cliToken, cliProject, caught,
                   thrown, assertion, answers, rid, other>>

ProjectCredFileRead ==
    /\ pc = "project_read"
    /\ psrc = 3
    /\ pending' = pending \ {Io("read", psrc)}
    /\ IF ReadProjectId(env.credFile) # Empty
       THEN ReturnProject(ReadProjectId(env.credFile))
       ELSE NextProjectSource
    /\ ptried' = ptried
    /\ UNCHANGED <<env, method, path, src, token, projectId, response, tried, posts,
                   gets, listReq, tokenResp, exch, listResp, cliToken, cliProject, caught,
                   thrown, assertion, answers, rid, other>>

ProjectFromDefaultFile ==
    /\ pc = "project"
    /\ psrc = 4
    /\ ptried' = Append(ptried, 4)
    /\ IF env.defaultFile.perm = "granted"
       THEN /\ pc' = "project_read"
            /\ pending' = pending \cup {Io("read", psrc)}
            /\ UNCHANGED <<psrc, ret>>
       ELSE /\ NextProjectSource
            /\ pending' = pending
    /\ UNCHANGED <<env, method, path, src, token, projectId, response, tried, posts,
                   gets, listReq, tokenResp, exch, listResp, cliToken, cliProject, caught,
                   thrown, assertion, answers, rid, other>>

ProjectDefaultFileRead ==
    /\ pc = "project_read"
    /\ psrc = 4
    /\ pending' = pending \ {Io("read", psrc)}
    /\ IF ReadProjectId(env.defaultFile) # Empty
       THEN ReturnProject(ReadProjectId(env.defaultFile))
       ELSE NextProjectSource
    /\ ptried' = ptried
    /\ UNCHANGED <<env, method, path, src, token, projectId, response, tried, posts,
                   gets, listReq, tokenResp, exch, listResp, cliToken, cliProject, caught,
                   thrown, assertion, answers, rid, other>>

ProjectFromGcloud ==
    /\ pc = "project"
    /\ psrc = 5
    /\ ptried' = Append(ptried, 5)
    /\ pending' = pending \cup {Io("gcloud", psrc)}
    /\ pc' = "cli_project"
    /\ UNCHANGED <<env, method, path, src, psrc, ret, token, projectId, response, tried,
                   posts, gets, listReq, tokenResp, exch, listResp, cliToken, cliProject, caught,
                   thrown, assertion, answers, rid, other>>

\* mutant of GcloudProject: the empty output is not rejected
GcloudProject_NoEmptyCheck(result) ==
    IF result.kind = "spawn_error"
    THEN Throw(Error(MsgNotFound))
    ELSE IF result.kind = "fail"
         THEN Throw(Error(MsgNoProject))
         ELSE Return(Str(Trim(result.stdout)))

\* what the last step of getCurrentProject makes of the CLI's result
GcloudProject(result) ==
    IF result.kind = "spawn_error"
    THEN Throw(Error(MsgNotFound))
    ELSE IF result.kind = "fail"
         THEN Throw(Error(MsgNoProject))
         ELSE IF Trim(result.stdout) = Empty
              THEN Throw(Error(MsgProjectUnset))
              ELSE Return(Str(Trim(result.stdout)))

GcloudProjectResult(result) ==
    /\ pc = "cli_project"
    /\ cliProject' = result
    /\ pending' = pending \ {Io("gcloud", psrc)}
    /\ answers' = IF answers.on THEN [answers EXCEPT !.cliProject = result] ELSE answers
    /\ ret' = GcloudProject(result)
    /\ pc' = "project_ret"
    /\ UNCHANGED <<env, method, path, src, psrc, token, projectId, response, tried,
                   ptried, posts, gets, listReq, tokenResp, exch, listResp, cliToken, caught,
                   thrown, assertion, rid, other>>

\* const projectId = await getCurrentProject(), then the fetch of the bucket
\* list is issued
AwaitProject ==
    /\ pc = "project_ret"
    /\ IF ret.threw
       THEN /\ ListBucketsThrew(ret.error)
            /\ UNCHANGED <<projectId, gets, listReq, pending>>
       ELSE /\ projectId' = ret.value.val
            /\ gets' = gets + 1
            /\ listReq' = ListRequest(ret.value.val, token)
            /\ pending' = pending \cup {Io("get", 0)}
            /\ pc' = "get"
            /\ ret' = NoResult
    /\ UNCHANGED <<response, thrown>>
    /\ cliProject' = NoCliResult
    /\ UNCHANGED <<env, method, path, src, psrc, token, tried, ptried, posts, tokenResp,
                   exch, listResp, cliToken, caught, assertion, answers, rid, other>>

(***************************************************************************)
(* listBuckets, after the fetch, and the handler's answer                  *)
(***************************************************************************)
\* mutant of ListResult: 403 is not told apart from the other statuses
ListResult_No403(resp) ==
    IF ~Ok(resp.status)
    THEN [ok |-> FALSE,
          error |-> IF resp.status = 401 THEN Error(MsgAuthFailed)
                    ELSE ErrorWith(MsgListFailed, resp.status, resp.body.text),
          items |-> Empty]
    ELSE IF resp.body.form # "object"
         THEN [ok |-> FALSE, error |-> Error(MsgSyntaxError), items |-> Empty]
         ELSE [ok |-> TRUE, error |-> NoError,
               items |-> IF resp.body.hasItems THEN resp.body.items ELSE Empty]

\* what listBuckets makes of the answer of the bucket-list endpoint
ListResult(resp) ==
    IF ~Ok(resp.status)
    THEN [ok |-> FALSE,
          error |-> IF resp.status = 401 THEN Error(MsgAuthFailed)
                    ELSE IF resp.status = 403 THEN Error(MsgPermissionDenied)
                    ELSE ErrorWith(MsgListFailed, resp.status, resp.body.text),
          items |-> Empty]
    ELSE IF resp.body.form # "object"
         THEN [ok |-> FALSE, error |-> Error(MsgSyntaxError), items |-> Empty]
         ELSE [ok |-> TRUE, error |-> NoError,
               items |-> IF resp.body.hasItems THEN resp.body.items ELSE Empty]

\* the bucket-list endpoint answers: the fetch settles, the body is still to
\* be read
ListAnswer(resp) ==
    /\ pc = "get"
    /\ listResp' = resp
    /\ pending' = pending \ {Io("get", 0)}
    /\ answers' = IF answers.on THEN [answers EXCEPT !.list = resp] ELSE answers
    /\ pc' = "get_body"
    /\ UNCHANGED <<env, method, path, src, psrc, ret, token, projectId, response, tried,
                   ptried, posts, gets, listReq, tokenResp, exch, cliToken, cliProject, caught,
                   thrown, assertion, rid, other>>

\* await response.text() or await response.json() has settled: listBuckets
\* returns the items or throws, which settles its promise
ListBody ==
    /\ pc = "get_body"
    /\ LET r == ListResult(listResp)
       IN  IF r.ok
           THEN /\ ret' = ReturnItems(r.items)
                /\ pc' = "list_ret"
           ELSE ListBucketsThrew(r.error)
    /\ UNCHANGED <<env, method, path, src, psrc, token, projectId, response, tried,
                   ptried, posts, gets, listReq, tokenResp, exch, listResp, cliToken,
                   cliProject, caught, thrown, pending, assertion, answers, rid, other>>

\* const buckets = await listBuckets() resumes in the handler: the 200
\* response is built from the buckets, an error goes to the handler's catch
AwaitListBuckets ==
    /\ pc = "list_ret"
    /\ IF ret.threw
       THEN Fail(ret.error)
       ELSE /\ response' = BucketsResponse(ret.items)
            /\ pc' = "done"
            /\ thrown' = thrown
    /\ ret' = NoResult
    /\ UNCHANGED <<env, method, path, src, psrc, token, projectId, tried, ptried,
                   posts, gets, listReq, tokenResp, exch, listResp, cliToken, cliProject,
                   caught, pending, assertion, answers, rid, other>>

Next ==
    \/ \E m \in Methods, p \in Paths : Handle(m, p)
    \/ TryInline
    \/ TryCredFile
    \/ CredFilePermission
    \/ CredFileRead
    \/ TryCloudToken
    \/ TryDefaultFile
    \/ DefaultFileRead
    \/ ImportKeyAnswer
    \/ \E signatureUint8 \in Signatures : SignAnswer(signatureUint8)
    \/ \E resp \in TokenResponses : TokenAnswer(resp)
    \/ TokenBody
    \/ AwaitServiceAccountToken
    \/ TryGcloud
    \/ \E result \in CliResults : GcloudTokenResult(result)
    \/ AwaitToken
    \/ ProjectFromEnv
    \/ ProjectFromInline
    \/ ProjectFromCredFile
    \/ ProjectCredFilePermission
    \/ ProjectCredFileRead
    \/ ProjectFromDefaultFile
    \/ ProjectDefaultFileRead
    \/ ProjectFromGcloud
    \/ \E result \in CliResults : GcloudProjectResult(result)
    \/ AwaitProject
    \/ \E resp \in ListResponses : ListAnswer(resp)
    \/ ListBody
    \/ AwaitListBuckets

Spec == Init /\ [][Next]_vars

(***************************************************************************)
(* One request under fair scheduling.  The continuations of the handler    *)
(* are run by the event loop as soon as what they await has settled, and   *)
(* every external call (permission query, file read, subprocess, fetch) is *)
(* taken to return or fail eventually.  The arrival of a request is not    *)
(* forced.                                                                 *)
(***************************************************************************)
\* the steps that follow the answer of a permission query or of the Web
\* Crypto API, or the return of an async function of the program
Continuations ==
    \/ TryInline
    \/ TryCredFile
    \/ CredFilePermission
    \/ TryCloudToken
    \/ TryDefaultFile
    \/ ImportKeyAnswer
    \/ \E signatureUint8 \in Signatures : SignAnswer(signatureUint8)
    \/ TryGcloud
    \/ AwaitToken
    \/ ProjectFromEnv
    \/ ProjectFromInline
    \/ ProjectFromCredFile
    \/ ProjectCredFilePermission
    \/ ProjectFromDefaultFile
    \/ ProjectFromGcloud
    \/ AwaitProject
    \/ AwaitServiceAccountToken
    \/ AwaitListBuckets

\* the answers of the file system, of the token endpoint, of the CLI and of
\* the bucket-list endpoint
ExternalAnswers ==
    \/ CredFileRead
    \/ DefaultFileRead
    \/ \E resp \in TokenResponses : TokenAnswer(resp)
    \/ TokenBody
    \/ \E result \in CliResults : GcloudTokenResult(result)
    \/ ProjectCredFileRead
    \/ ProjectDefaultFileRead
    \/ \E result \in CliResults : GcloudProjectResult(result)
    \/ \E resp \in ListResponses : ListAnswer(resp)
    \/ ListBody

Fairness == WF_vars(Continuations) /\ WF_vars(ExternalAnswers)

\* configurations of the fair runs: those in which every permission is granted
LiveEnvs ==
    {e \in Envs :
        /\ \A v \in {"GCP_PROJECT_ID", "GCP_SERVICE_ACCOUNT", "GOOGLE_APPLICATION_CREDENTIALS",
                      "CLOUD_ACCESS_TOKEN"} : e[v].perm = "granted"
        /\ e.GOOGLE_APPLICATION_CREDENTIALS.val # Empty => e.credFile.perm = "granted"
        /\ e.defaultFile.perm = "granted"}

InitLive ==
    /\ Init
    /\ env \in LiveEnvs

SpecLive == InitLive /\ [][Next]_vars /\ Fairness

(***************************************************************************)
(* Two requests in one process.  The handler is called once per request;   *)
(* its variables and those of the functions it calls are per call, env is  *)
(* shared.  The event loop runs one request at a time and may go over to   *)
(* the other request wherever the running one awaits.                      *)
(***************************************************************************)
\* the variables of the running request
Context ==
    [pc |-> pc, method |-> method, path |-> path, src |-> src, psrc |-> psrc,
     ret |-> ret, token |-> token, projectId |-> projectId, response |-> response,
     tried |-> tried, ptried |-> ptried, posts |-> posts, gets |-> gets,
     tokenResp |-> tokenResp, exch |-> exch, listResp |-> listResp,
     cliToken |-> cliToken, cliProject |-> cliProject, caught |-> caught,
     thrown |-> thrown, pending |-> pending, assertion |-> assertion,
     listReq |-> listReq,
     answers |-> answers]

\* positions at which the running request awaits, or has answered
AwaitPoints ==
    {"token", "file_perm", "file_read", "import", "sign", "exchange", "exchange_body",
     "sa_ret", "cli_token", "token_ret", "project", "project_file_perm", "project_read",
     "cli_project", "project_ret", "get", "get_body", "list_ret", "done"}

\* the running request is suspended at an await, or has answered: the step of
\* the CLI source follows the step before it with no await in between (the
\* first await after lines 212 and 74 is the cmd.output() of lines 227 and 89)
Suspended ==
    /\ pc \in AwaitPoints
    /\ ~(pc = "token" /\ src = 5)
    /\ ~(pc = "project" /\ psrc = 5)

\* mutant of Switch: token is one variable of the module, shared by the requests
Switch_SharedToken ==
    /\ Suspended
    /\ other.pc # "done"
    /\ rid' = 3 - rid
    /\ other' = Context
    /\ pc' = other.pc
    /\ method' = other.method
    /\ path' = other.path
    /\ src' = other.src
    /\ psrc' = other.psrc
    /\ ret' = other.ret
    /\ projectId' = other.projectId
    /\ response' = other.response
    /\ tried' = other.tried
    /\ ptried' = other.ptried
    /\ posts' = other.posts
    /\ gets' = other.gets
    /\ tokenResp' = other.tokenResp
    /\ exch' = other.exch
    /\ listResp' = other.listResp
    /\ cliToken' = other.cliToken
    /\ cliProject' = other.cliProject
    /\ caught' = other.caught
    /\ thrown' = other.thrown
    /\ pending' = other.pending
    /\ assertion' = other.assertion
    /\ listReq' = other.listReq
    /\ answers' = other.answers
    /\ UNCHANGED <<env, token>>

\* the event loop leaves the running request at an await and runs the other
Switch ==
    /\ Suspended
    /\ other.pc # "done"
    /\ rid' = 3 - rid
    /\ other' = Context
    /\ pc' = other.pc
    /\ method' = other.method
    /\ path' = other.path
    /\ src' = other.src
    /\ psrc' = other.psrc
    /\ ret' = other.ret
    /\ token' = other.token
    /\ projectId' = other.projectId
    /\ response' = other.response
    /\ tried' = other.tried
    /\ ptried' = other.ptried
    /\ posts' = other.posts
    /\ gets' = other.gets
    /\ tokenResp' = other.tokenResp
    /\ exch' = other.exch
    /\ listResp' = other.listResp
    /\ cliToken' = other.cliToken
    /\ cliProject' = other.cliProject
    /\ caught' = other.caught
    /\ thrown' = other.thrown
    /\ pending' = other.pending
    /\ assertion' = other.assertion
    /\ listReq' = other.listReq
    /\ answers' = other.answers
    /\ UNCHANGED env

\* configurations of the two-request runs: a key that imports, with or
\* without project_id, either inline with no key file or in the file
\* GOOGLE_APPLICATION_CREDENTIALS names, with ./service-account.json holding
\* no JSON; any state of CLOUD_ACCESS_TOKEN and of GCP_PROJECT_ID
ConcurrentEnvs ==
    {e \in Envs :
        \/ /\ e.GCP_SERVICE_ACCOUNT.perm = "granted"
           /\ e.GCP_SERVICE_ACCOUNT.val.form = "object"
           /\ e.GCP_SERVICE_ACCOUNT.val.private_key = "good"
           /\ e.GOOGLE_APPLICATION_CREDENTIALS.perm = "denied"
           /\ e.defaultFile = NoFile
        \/ /\ e.GCP_SERVICE_ACCOUNT.perm = "denied"
           /\ e.GOOGLE_APPLICATION_CREDENTIALS.perm = "granted"
           /\ e.credFile.exists
           /\ e.credFile.text.private_key = "good"
           /\ e.defaultFile.exists
           /\ e.defaultFile.text = Garbage
        \/ /\ e.GCP_SERVICE_ACCOUNT.perm = "granted"
           /\ e.GCP_SERVICE_ACCOUNT.val.form = "object"
           /\ e.GCP_SERVICE_ACCOUNT.val.private_key = "absent"
           /\ e.GOOGLE_APPLICATION_CREDENTIALS.perm = "denied"
           /\ e.CLOUD_ACCESS_TOKEN.perm = "denied"
           /\ e.defaultFile = NoFile}

\* answers of the external collaborators in the two-request runs
ConcurrentTokenResponses ==
    {r \in TokenResponses :
        r.status \in {200, 400} /\ r.body.text \in {"token_json", "bad_request"}}

ConcurrentCliResults ==
    {[kind |-> "fail", stdout |-> Empty], [kind |-> "ok", stdout |-> <<"c">>]}

ConcurrentListResponses ==
    {r \in ListResponses :
        \/ r.status = 403 /\ r.body.text = "denied"
        \/ r.status = 200 /\ r.body.hasItems /\ Len(r.body.items) = 1}

InitConcurrent ==
    /\ env \in ConcurrentEnvs
    /\ rid = 1
    /\ other = IdleContext(TRUE)
    /\ pc = IdleContext(TRUE).pc
    /\ method = IdleContext(TRUE).method
    /\ path = IdleContext(TRUE).path
    /\ src = IdleContext(TRUE).src
    /\ psrc = IdleContext(TRUE).psrc
    /\ ret = IdleContext(TRUE).ret
    /\ token = IdleContext(TRUE).token
    /\ projectId = IdleContext(TRUE).projectId
    /\ response = IdleContext(TRUE).response
    /\ tried = IdleContext(TRUE).tried
    /\ ptried = IdleContext(TRUE).ptried
    /\ posts = IdleContext(TRUE).posts
    /\ gets = IdleContext(TRUE).gets
    /\ tokenResp = IdleContext(TRUE).tokenResp
    /\ exch = IdleContext(TRUE).exch
    /\ listResp = IdleContext(TRUE).listResp
    /\ cliToken = IdleContext(TRUE).cliToken
    /\ cliProject = IdleContext(TRUE).cliProject
    /\ caught = IdleContext(TRUE).caught
    /\ thrown = IdleContext(TRUE).thrown
    /\ pending = IdleContext(TRUE).pending
    /\ assertion = IdleContext(TRUE).assertion
    /\ listReq = IdleContext(TRUE).listReq
    /\ answers = IdleContext(TRUE).answers

NextConcurrent ==
    \/ Handle("GET", "/api/buckets")
    \/ Switch
    \/ TryInline
    \/ TryCredFile
    \/ CredFilePermission
    \/ CredFileRead
    \/ TryCloudToken
    \/ TryDefaultFile
    \/ DefaultFileRead
    \/ ImportKeyAnswer
    \/ \E signatureUint8 \in Signatures : SignAnswer(signatureUint8)
    \/ \E resp \in ConcurrentTokenResponses : TokenAnswer(resp)
    \/ TokenBody
    \/ AwaitServiceAccountToken
    \/ TryGcloud
    \/ \E result \in ConcurrentCliResults : GcloudTokenResult(result)
    \/ AwaitToken
    \/ ProjectFromEnv
    \/ ProjectFromInline
    \/ ProjectFromCredFile
    \/ ProjectCredFilePermission
    \/ ProjectCredFileRead
    \/ ProjectFromDefaultFile
    \/ ProjectDefaultFileRead
    \/ ProjectFromGcloud
    \/ \E result \in ConcurrentCliResults : GcloudProjectResult(result)
    \/ AwaitProject
    \/ \E resp \in ConcurrentListResponses : ListAnswer(resp)
    \/ ListBody
    \/ AwaitListBuckets

SpecConcurrent == InitConcurrent /\ [][NextConcurrent]_vars

(***************************************************************************)
(* What the claims mean by a source, read off the configuration and the    *)
(* external answers                                                        *)
(***************************************************************************)
NonBlank(s) == \E i \in 1..Len(s) : s[i] \notin WhiteSpace

\* t is s without its leading and trailing white space
IsTrimOf(t, s) ==
    \E a \in 1..Len(s), b \in 1..Len(s) :
        /\ a <= b
        /\ s[a] \notin WhiteSpace
        /\ s[b] \notin WhiteSpace
        /\ \A i \in 1..Len(s) : (i < a \/ i > b) => s[i] \in WhiteSpace
        /\ t = SubSeq(s, a, b)

UpTo(k) == [i \in 1..k |-> i]

InlinePresent ==
    env.GCP_SERVICE_ACCOUNT.perm = "granted" /\ env.GCP_SERVICE_ACCOUNT.val.form # "empty"

CredFileNamed ==
    /\ env.GOOGLE_APPLICATION_CREDENTIALS.perm = "granted"
    /\ env.GOOGLE_APPLICATION_CREDENTIALS.val # Empty

Readable(file) == file.perm = "granted" /\ file.exists /\ file.text.form = "object"

\* credential source k supplies a credential: a service-account key that
\* parses, a bearer token, or a usable CLI output
Available(k) ==
    CASE k = 1 -> InlinePresent /\ env.GCP_SERVICE_ACCOUNT.val.form = "object"
      [] k = 2 -> CredFileNamed /\ Readable(env.credFile)
      [] k = 3 -> env.CLOUD_ACCESS_TOKEN.perm = "granted" /\ env.CLOUD_ACCESS_TOKEN.val # Empty
      [] k = 4 -> Readable(env.defaultFile)
      [] k = 5 -> cliToken.kind = "ok" /\ NonBlank(cliToken.stdout)

\* credential source k fails locally: a missing permission, a missing file
\* or a text that does not parse
LocalFailure(k) ==
    CASE k = 1 -> \/ env.GCP_SERVICE_ACCOUNT.perm # "granted"
                  \/ env.GCP_SERVICE_ACCOUNT.val.form = "garbage"
      [] k = 2 -> \/ env.GOOGLE_APPLICATION_CREDENTIALS.perm # "granted"
                  \/ CredFileNamed /\ ~Readable(env.credFile)
      [] k = 3 -> env.CLOUD_ACCESS_TOKEN.perm # "granted"
      [] k = 4 -> ~Readable(env.defaultFile)

\* the project id project source k yields from the configuration (1..4)
ProjectYield(k) ==
    CASE k = 1 -> IF env.GCP_PROJECT_ID.perm = "granted" THEN env.GCP_PROJECT_ID.val
                  ELSE Empty
      [] k = 2 -> IF Available(1) THEN env.GCP_SERVICE_ACCOUNT.val.project_id ELSE Empty
      [] k = 3 -> IF Available(2) THEN env.credFile.text.project_id ELSE Empty
      [] k = 4 -> IF Available(4) THEN env.defaultFile.text.project_id ELSE Empty

BucketsRequest == method = "GET" /\ path = "/api/buckets"

(***************************************************************************)
(* C1: priority order of getAccessToken.  For every k in 1..5, if source k *)
(* is available and no source before k is, getAccessToken returns the      *)
(* token source k produced and attempts no source after k.                 *)
(***************************************************************************)
ProducedBy(k) ==
    CASE k \in {1, 2, 4} -> tokenResp.body.access_token
      [] k = 3 -> Str(env.CLOUD_ACCESS_TOKEN.val)
      [] k = 5 -> Str(Trim(cliToken.stdout))

C1_PriorityOrder ==
    pc = "token_ret" =>
        \A k \in 1..5 :
            (Available(k) /\ \A j \in 1..(k - 1) : ~Available(j)) =>
                /\ ~ret.threw
                /\ ret.value = ProducedBy(k)
                /\ tried = UpTo(k)

(***************************************************************************)
(* C2: in getAccessToken a parse failure, a missing permission or a        *)
(* missing file at a level 1..4 is not fatal: once that step has run (the  *)
(* request is no longer suspended on its permission query or file read)    *)
(* the resolver is at the next source with no error raised, and            *)
(* getAccessToken throws only after all five sources have been tried.      *)
(***************************************************************************)
C2_LocalFailuresNotFatal ==
    /\ \A k \in 1..4 :
        (LocalFailure(k) /\ Len(tried) = k /\ pc \notin {"file_perm", "file_read"}) =>
            /\ pc = "token"
            /\ src = k + 1
            /\ ~ret.settled
            /\ thrown = NoError
            /\ response = NoResponse
    /\ (pc = "token_ret" /\ ret.threw) => tried = UpTo(5)
    /\ (thrown # NoError /\ ptried = <<>> /\ gets = 0) => tried = UpTo(5)

C2_Witness ==
    /\ LocalFailure(1)
    /\ env.GCP_SERVICE_ACCOUNT.val.form = "garbage"
    /\ LocalFailure(2)
    /\ tried = UpTo(2)
    /\ caught # <<>>
    /\ caught[1] = [src |-> 1, error |-> Error(MsgSyntaxError)]
    /\ pc = "token"
    /\ src = 3

(***************************************************************************)
(* C3: an error raised by getServiceAccountToken (the key cannot be        *)
(* imported, or the token endpoint answers with a non-success status) for  *)
(* the source getAccessToken chose leaves getAccessToken as its thrown     *)
(* error, to become the 500 response; no further source is tried.  The     *)
(* error is looked at once getAccessToken has resumed from the call.       *)
(***************************************************************************)
C3_ServiceAccountErrorsPropagate ==
    (exch.threw /\ pc # "sa_ret") =>
        /\ pc = "token_ret"
        /\ ret = Throw(exch.error)
        /\ tried = UpTo(src)

(***************************************************************************)
(* C4: when none of the five credential sources is available,              *)
(* getAccessToken throws the no-credentials error, the request ends with   *)
(* it, and neither the POST to the token endpoint nor the GET to the       *)
(* bucket-list endpoint is issued.                                         *)
(***************************************************************************)
NoKeyOrToken == \A k \in 1..4 : ~Available(k)

C4_NoCredentialsState ==
    NoKeyOrToken =>
        /\ posts = 0
        /\ (pc = "token_ret" /\ ~Available(5)) =>
                ret = Throw(Error(MsgNoAuth)) /\ gets = 0
        /\ (pc = "list_ret" /\ ptried = <<>>) =>
                ret = Throw(Error(MsgNoAuth)) /\ gets = 0
        /\ (pc = "done" /\ BucketsRequest /\ ptried = <<>>) =>
                /\ thrown = Error(MsgNoAuth)
                /\ response.status = 500
                /\ gets = 0

C4_NoCredentialsStep ==
    /\ (NoKeyOrToken /\ pc = "token_ret" /\ ~Available(5)) =>
            /\ pc' = "list_ret"
            /\ ret' = Throw(Error(MsgNoAuth))
            /\ posts' = 0
            /\ gets' = 0
            /\ ptried' = <<>>
    /\ (NoKeyOrToken /\ pc = "list_ret" /\ ptried = <<>>) =>
            /\ pc' = "done"
            /\ thrown' = Error(MsgNoAuth)
            /\ posts' = 0
            /\ gets' = 0
            /\ ptried' = <<>>

C4_NoCredentialsNoNetwork == []C4_NoCredentialsState /\ [][C4_NoCredentialsStep]_vars

C4_Witness ==
    /\ NoKeyOrToken
    /\ pc = "done"
    /\ BucketsRequest
    /\ tried = UpTo(5)
    /\ thrown = Error(MsgNoAuth)

(***************************************************************************)
(* C5: priority order of getCurrentProject.  The project returned is the   *)
(* one of the first source, in the order GCP_PROJECT_ID, inline            *)
(* service account, GOOGLE_APPLICATION_CREDENTIALS file,                   *)
(* ./service-account.json, gcloud, that yields a non-empty project id, and *)
(* no later source is consulted.                                           *)
(***************************************************************************)
C5_ProjectPriorityOrder ==
    /\ (pc = "project_ret" /\ ~ret.threw) =>
        \E k \in 1..5 :
            /\ ptried = UpTo(k)
            /\ \A j \in 1..(k - 1) : j <= 4 => ProjectYield(j) = Empty
            /\ k <= 4 => ret.value = Str(ProjectYield(k)) /\ ProjectYield(k) # Empty
            /\ k = 5 => /\ cliProject.kind = "ok"
                        /\ ret.value.def
                        /\ IsTrimOf(ret.value.val, cliProject.stdout)
    /\ \A k \in 1..4 :
        (ProjectYield(k) # Empty /\ \A j \in 1..(k - 1) : ProjectYield(j) = Empty) =>
            /\ Len(ptried) <= k
            /\ pc = "project_ret" => ret = Return(Str(ProjectYield(k)))
            /\ gets > 0 => projectId = ProjectYield(k) /\ ptried = UpTo(k)

C5_Witness ==
    /\ pc = "get"
    /\ ProjectYield(1) = Empty
    /\ ProjectYield(2) = Empty
    /\ ProjectYield(3) = CredFileProject
    /\ ProjectYield(4) = DefaultProject
    /\ projectId = CredFileProject
    /\ ptried = UpTo(3)

(***************************************************************************)
(* C6: getCurrentProject never returns an empty project id; when the       *)
(* first four sources yield none and the CLI exits with failure or prints  *)
(* only white space, it throws the no-project error.                       *)
(***************************************************************************)
C6_NoEmptyProject ==
    /\ (pc = "project_ret" /\ ~ret.threw) => ret.value.def /\ NonBlank(ret.value.val)
    /\ gets > 0 => NonBlank(projectId)
    /\ (pc = "project_ret" /\ cliProject.kind = "fail") =>
            ret = Throw(Error(MsgNoProject))
    /\ (pc = "project_ret" /\ cliProject.kind = "ok" /\ ~NonBlank(cliProject.stdout)) =>
            ret = Throw(Error(MsgProjectUnset))
    /\ (pc = "project_ret" /\ ptried = UpTo(5)) => (ret.threw <=> ~
            (cliProject.kind = "ok" /\ NonBlank(cliProject.stdout)))

C6_Witness ==
    /\ pc = "project_ret"
    /\ ptried = UpTo(5)
    /\ cliProject = [kind |-> "ok", stdout |-> <<" ">>]
    /\ ret = Throw(Error(MsgProjectUnset))

(***************************************************************************)
(* C7: token exchange.  A non-success status s with body b makes           *)
(* getServiceAccountToken throw an error carrying s and b; a success       *)
(* answer whose JSON body has access_token t makes it return exactly t.    *)
(* The answer is judged once its body has been read.                       *)
(***************************************************************************)
Success(status) == status \in 200..299

C7_TokenExchange ==
    (tokenResp # NoTokenResp /\ pc # "exchange_body") =>
        /\ ~Success(tokenResp.status) =>
                /\ exch.threw
                /\ exch.error = ErrorWith(MsgTokenFailed, tokenResp.status,
                                          tokenResp.body.text)
        /\ (/\ Success(tokenResp.status)
            /\ tokenResp.body.form = "object"
            /\ tokenResp.body.access_token.def) =>
                /\ ~exch.threw
                /\ exch.value = tokenResp.body.access_token
                /\ pc \in {"sa_ret", "token_ret"}
                /\ pc = "token_ret" => ret = Return(tokenResp.body.access_token)

C7_Witness ==
    /\ tokenResp.status = 400
    /\ tokenResp.body.text = "bad_request"
    /\ exch.threw
    /\ exch.error = ErrorWith(MsgTokenFailed, 400, "bad_request")

(***************************************************************************)
(* C8: a success answer of the token endpoint whose JSON body has no       *)
(* access_token makes getServiceAccountToken throw; no value is returned   *)
(* to getAccessToken.                                                      *)
(***************************************************************************)
C8_MalformedTokenResponseFails ==
    (/\ tokenResp # NoTokenResp
     /\ pc # "exchange_body"
     /\ Success(tokenResp.status)
     /\ tokenResp.body.form = "object"
     /\ ~tokenResp.body.access_token.def) =>
        /\ exch.threw
        /\ ~(ret.settled /\ ~ret.threw)

(***************************************************************************)
(* C9: listBuckets maps the answer of the bucket-list endpoint: 401 to the *)
(* authentication-failed error, 403 to the permission-denied error, any    *)
(* other non-2xx status s with body b to a list-failed error carrying s    *)
(* and b, and a 2xx answer to the items of its body, or to the empty       *)
(* sequence when the body has no items.  The answer is mapped once its     *)
(* body has been read.                                                     *)
(***************************************************************************)
\* the error listBuckets has thrown: its rejected promise, then what the
\* handler caught
ListBucketsError == IF pc = "list_ret" THEN ret.error ELSE thrown

C9_ListBucketsMapping ==
    (listResp # NoListResp /\ pc # "get_body") =>
        /\ listResp.status = 401 => ListBucketsError = Error(MsgAuthFailed)
        /\ listResp.status = 403 => ListBucketsError = Error(MsgPermissionDenied)
        /\ (~Success(listResp.status) /\ listResp.status \notin {401, 403}) =>
                ListBucketsError =
                    ErrorWith(MsgListFailed, listResp.status, listResp.body.text)
        /\ (Success(listResp.status) /\ listResp.body.form = "object" /\ pc = "list_ret") =>
                /\ ~ret.threw
                /\ ret.items = IF listResp.body.hasItems THEN listResp.body.items ELSE Empty
        /\ (Success(listResp.status) /\ listResp.body.form = "object" /\ pc = "done") =>
                /\ thrown = NoError
                /\ response.status = 200
                /\ response.count = IF listResp.body.hasItems
                                    THEN Len(listResp.body.items) ELSE 0
                /\ Len(response.buckets) = response.count
                /\ \A i \in 1..response.count :
                        /\ response.buckets[i].name = listResp.body.items[i].name
                        /\ response.buckets[i].id = listResp.body.items[i].id

C9_Witness ==
    /\ pc = "done"
    /\ listResp.status = 300
    /\ listResp.body.text = "denied"
    /\ thrown = ErrorWith(MsgListFailed, 300, "denied")

(***************************************************************************)
(* C10: every error that leaves getAccessToken, getCurrentProject or       *)
(* listBuckets becomes the 500 response with error = "Failed to retrieve   *)
(* GCS buckets" and details = the error's message; the request never ends  *)
(* without a response and never answers 200 after such an error.           *)
(***************************************************************************)
C10_ErrorState ==
    /\ thrown # NoError =>
            /\ pc = "done"
            /\ response.status = 500
            /\ response.error = "Failed to retrieve GCS buckets"
            /\ response.details = thrown
    /\ pc = "done" => response.status \in {200, 404, 405, 500}
    /\ (listResp # NoListResp /\ pc = "list_ret" /\ ~Success(listResp.status)) => ret.threw
    /\ (listResp # NoListResp /\ pc = "done" /\ ~Success(listResp.status)) =>
            thrown # NoError

C10_ErrorStep ==
    /\ (pc \in {"token_ret", "project_ret"} /\ ret.threw) =>
            /\ pc' = "list_ret"
            /\ ret' = Throw(ret.error)
    /\ (pc = "list_ret" /\ ret.threw) =>
            /\ pc' = "done"
            /\ thrown' = ret.error
            /\ response'.status = 500
            /\ response'.details = ret.error
    /\ thrown # NoError => thrown' = thrown /\ response' = response

C10_ErrorsBecome500 == []C10_ErrorState /\ [][C10_ErrorStep]_vars

C10_Witness ==
    /\ pc = "done"
    /\ thrown = Error(MsgNoProject)
    /\ response.status = 500
    /\ response.details = Error(MsgNoProject)

(***************************************************************************)
(* C11: routing of the request handler, for every method and path.  GET    *)
(* "/" answers the static HTML, GET "/api/buckets" answers the bucket JSON *)
(* (or the 500 of C10), every other method answers 405 with an {error}     *)
(* JSON body whatever the path, and a GET of any other path answers 404.   *)
(***************************************************************************)
C11_Routing ==
    pc # "idle" =>
        /\ (method = "GET" /\ path = "/") =>
                /\ pc = "done"
                /\ response.status = 200
                /\ response.kind = "html"
        /\ (method = "GET" /\ path = "/api/buckets" /\ pc = "done") =>
                /\ response.kind = "json"
                /\ response.status \in {200, 500}
                /\ response.status = 200 <=> thrown = NoError
                /\ tried # <<>>
        /\ method # "GET" =>
                /\ pc = "done"
                /\ response.status = 405
                /\ response.kind = "json"
                /\ response.error = "Method not allowed"
                /\ tried = <<>>
        /\ (method = "GET" /\ path \notin {"/", "/api/buckets"}) =>
                /\ pc = "done"
                /\ response.status = 404
                /\ tried = <<>>

C11_Witness ==
    /\ pc = "done"
    /\ method = "POST"
    /\ path = "/"
    /\ response.status = 405

(***************************************************************************)
(* C12: I/O within a resolution attempt is strictly sequential.  At most   *)
(* one file read, subprocess or network call is outstanding at any moment, *)
(* the request is suspended on it, and the step of the next credential or  *)
(* project source starts only when nothing of the previous step is         *)
(* outstanding.                                                            *)
(***************************************************************************)
C12_OneOutstanding ==
    /\ Cardinality(pending) <= 1
    /\ pending # {} => pc \in {"file_read", "exchange", "cli_token",
                               "project_read", "cli_project", "get"}
    /\ pc = "file_read" => pending = {Io("read", src)}
    /\ pc = "exchange" => pending = {Io("post", src)}
    /\ pc = "project_read" => pending = {Io("read", psrc)}

C12_NextAfterCompletion ==
    /\ tried' # tried => pending = {}
    /\ ptried' # ptried => pending = {}
    /\ gets' # gets => pending = {}

C12_SequentialIo == []C12_OneOutstanding /\ [][C12_NextAfterCompletion]_vars

C12_Witness ==
    /\ pending = {Io("post", 4)}
    /\ posts = 3
    /\ tried = <<1, 2, 3, 4>>

(***************************************************************************)
(* C14: the pass-through source.  When getAccessToken returns at source 3, *)
(* the value returned is the value of CLOUD_ACCESS_TOKEN, unchanged, and   *)
(* it is the bearer token of the request; the step of source 3 sends no    *)
(* POST to the token endpoint and leaves none outstanding.                 *)
(***************************************************************************)
C14_Unchanged ==
    /\ (pc = "token_ret" /\ src = 3) =>
            /\ env.CLOUD_ACCESS_TOKEN.perm = "granted"
            /\ env.CLOUD_ACCESS_TOKEN.val # Empty
            /\ ret = Return(Str(env.CLOUD_ACCESS_TOKEN.val))
    /\ (/\ pc \in {"project", "project_file_perm", "project_read", "cli_project",
                    "project_ret", "get", "get_body", "list_ret"}
        /\ src = 3) =>
            token = Str(env.CLOUD_ACCESS_TOKEN.val)
    /\ pc \in {"file_perm", "file_read", "import", "sign", "exchange", "exchange_body",
               "sa_ret"} => src # 3

C14_NoPost ==
    (pc = "token" /\ src = 3) =>
        /\ posts' = posts
        /\ pending' = {}
        /\ pc' \in {"token", "token_ret"}

C14_PassThrough == []C14_Unchanged /\ [][C14_NoPost]_vars

C14_Witness ==
    /\ pc = "get"
    /\ src = 3
    /\ tried = <<1, 2, 3>>
    /\ posts = 2
    /\ token = Str(EnvToken)

(***************************************************************************)
(* C15: no step is retried.  Within one request the credential sources     *)
(* attempted are 1, 2, ... each once, and so are the project sources; at   *)
(* most one POST is sent per service-account source and at most one GET    *)
(* of the bucket list; when the CLI, the last source of either resolver,   *)
(* fails, the resolver throws, and a request that has been answered takes  *)
(* no further step.                                                        *)
(***************************************************************************)
C15_AtMostOnce ==
    /\ Len(tried) <= 5
    /\ tried = UpTo(Len(tried))
    /\ Len(ptried) <= 5
    /\ ptried = UpTo(Len(ptried))
    /\ posts <= Cardinality({i \in 1..Len(tried) : tried[i] \in {1, 2, 4}})
    /\ gets <= 1
    /\ (pc = "token_ret" /\ src = 5 /\ cliToken.kind # "ok") => ret = Throw(Error(MsgNoAuth))
    /\ (pc = "project_ret" /\ psrc = 5 /\ cliProject.kind # "ok") => ret.threw
    /\ thrown # NoError => pc = "done"

C15_Terminal == pc = "done" => UNCHANGED vars

C15_NoRetries == []C15_AtMostOnce /\ [][C15_Terminal]_vars

C15_Witness ==
    /\ pc = "token_ret"
    /\ cliToken.kind = "fail"
    /\ tried = UpTo(5)
    /\ posts = 3
    /\ ret.threw

(***************************************************************************)
(* C16: every claim set built by getServiceAccountToken expires exactly    *)
(* one hour after it was issued, exp - iat = 3600, whatever the key and    *)
(* the clock.                                                              *)
(***************************************************************************)
C16_ExpiryOneHour ==
    pc \in {"import", "sign", "exchange"} =>
        /\ assertion.claimSet.exp - assertion.claimSet.iat = 3600
        /\ \E ms \in ClockMs :
            /\ assertion.claimSet.iat * 1000 <= ms
            /\ ms < (assertion.claimSet.iat + 1) * 1000

C16_Witness ==
    /\ pc = "exchange"
    /\ assertion.claimSet.iss = CredFileEmail
    /\ assertion.claimSet.iat = 6400
    /\ assertion.claimSet.exp = 10000

(***************************************************************************)
(* C17: in every assertion built by getServiceAccountToken the header, the *)
(* claims and the signature segment are base64url without padding: none    *)
(* holds "+", "/" or "=".                                                  *)
(***************************************************************************)
Base64UrlNoPadding(segment) ==
    \A i \in 1..Len(segment) : segment[i] \notin {"+", "/", "="}

C17_Base64Url ==
    pc = "exchange" =>
        /\ Base64UrlNoPadding(assertion.base64Header)
        /\ Base64UrlNoPadding(assertion.base64ClaimSet)
        /\ Base64UrlNoPadding(assertion.signature)

(***************************************************************************)
(* C18: end to end.  A GET of "/api/buckets" with a valid inline           *)
(* service-account JSON and GCP_PROJECT_ID set, whose token exchange and   *)
(* bucket listing both succeed, is answered 200 with count = the number of *)
(* buckets the provider returned and one entry {name, location, created,   *)
(* storageClass, id} per returned bucket, in the provider's order.         *)
(***************************************************************************)
ValidInlineAndProject ==
    /\ InlinePresent
    /\ env.GCP_SERVICE_ACCOUNT.val.form = "object"
    /\ env.GCP_SERVICE_ACCOUNT.val.private_key = "good"
    /\ env.GCP_PROJECT_ID.perm = "granted"
    /\ env.GCP_PROJECT_ID.val # Empty

\* the one exchange of the request answered with an access token, and the
\* bucket-list endpoint answered 2xx with a JSON object
ExchangeAndListingSucceeded ==
    /\ posts = 1
    /\ token = Str(AccessTokenValue)
    /\ Success(listResp.status)
    /\ listResp.body.form = "object"

ReturnedBuckets == IF listResp.body.hasItems THEN listResp.body.items ELSE Empty

C18_EndToEnd ==
    (pc = "done" /\ BucketsRequest /\ ValidInlineAndProject /\ ExchangeAndListingSucceeded) =>
        /\ tried = <<1>>
        /\ ptried = <<1>>
        /\ projectId = env.GCP_PROJECT_ID.val
        /\ gets = 1
        /\ response.status = 200
        /\ response.kind = "json"
        /\ response.count = Len(ReturnedBuckets)
        /\ Len(response.buckets) = Len(ReturnedBuckets)
        /\ \A i \in 1..Len(ReturnedBuckets) :
                response.buckets[i] = [name |-> ReturnedBuckets[i].name,
                                       location |-> ReturnedBuckets[i].location,
                                       created |-> ReturnedBuckets[i].timeCreated,
                                       storageClass |-> ReturnedBuckets[i].storageClass,
                                       id |-> ReturnedBuckets[i].id]

C18_Witness ==
    /\ pc = "done"
    /\ BucketsRequest
    /\ ValidInlineAndProject
    /\ ExchangeAndListingSucceeded
    /\ response.count = MaxItems
    /\ response.buckets[1].name # response.buckets[MaxItems].name

(***************************************************************************)
(* C19: the CLI credential source of getAccessToken.  It yields a token    *)
(* exactly when the subprocess exits successfully and its standard output  *)
(* is not empty once trimmed; the token is then the trimmed output.  On a  *)
(* failing exit, on a subprocess that cannot be started and on an output   *)
(* of white space only, getAccessToken throws the no-credentials error.    *)
(***************************************************************************)
C19_CliCredential ==
    (pc = "token_ret" /\ src = 5) =>
        /\ cliToken # NoCliResult
        /\ ~ret.threw <=> (cliToken.kind = "ok" /\ NonBlank(cliToken.stdout))
        /\ ~ret.threw =>
                /\ ret.value.def
                /\ ret.value.val # Empty
                /\ IsTrimOf(ret.value.val, cliToken.stdout)
        /\ ret.threw => ret = Throw(Error(MsgNoAuth))
        /\ cliToken.kind = "fail" =>
                caught[Len(caught)] = [src |-> 5,
                                       error |-> Error("Failed to get token from gcloud CLI")]

C19_Witness ==
    /\ pc = "token_ret"
    /\ src = 5
    /\ cliToken.kind = "ok"
    /\ cliToken.stdout = <<"c", " ">>
    /\ ret = Return(Str(<<"c">>))

(***************************************************************************)
(* C20: ordering inside listBuckets.  Project resolution starts only when  *)
(* getAccessToken has returned, with the value returned as the token; the  *)
(* GET of the bucket list is issued only when getCurrentProject has        *)
(* returned as well; when getAccessToken throws, no project source is      *)
(* consulted, no project subprocess is started and no GET is issued.       *)
(***************************************************************************)
C20_OrderState ==
    /\ pc \in {"idle", "token", "file_perm", "file_read", "import", "sign", "exchange",
               "exchange_body", "sa_ret", "cli_token", "token_ret"} =>
            /\ ptried = <<>>
            /\ psrc = 0
            /\ gets = 0
    /\ pc \in {"project", "project_file_perm", "project_read", "cli_project",
               "project_ret"} => gets = 0
    /\ gets > 0 =>
            /\ ptried # <<>>
            /\ projectId # Empty
            /\ pc \in {"get", "get_body", "list_ret", "done"}
    /\ (thrown = Error(MsgNoAuth) \/ (pc = "list_ret" /\ ret = Throw(Error(MsgNoAuth)))) =>
            /\ ptried = <<>>
            /\ psrc = 0
            /\ cliProject = NoCliResult
            /\ gets = 0
            /\ listResp = NoListResp

C20_OrderStep ==
    /\ psrc' # psrc => \/ pc = "token_ret" /\ ~ret.threw /\ token' = ret.value /\ psrc' = 1
                       \/ /\ pc \in {"project", "project_file_perm", "project_read"}
                          /\ psrc' = psrc + 1
    /\ ptried' # ptried => pc = "project"
    /\ gets' # gets => pc = "project_ret" /\ ~ret.threw /\ projectId' = ret.value.val
    /\ (pc = "token_ret" /\ ret.threw) =>
            /\ pc' = "list_ret"
            /\ ret' = Throw(ret.error)
            /\ UNCHANGED <<psrc, ptried, gets, listReq, pending>>
    /\ pc = "list_ret" =>
            /\ pc' = "done"
            /\ ret.threw => thrown' = ret.error
            /\ UNCHANGED <<psrc, ptried, gets, listReq, pending>>

C20_Ordering == []C20_OrderState /\ [][C20_OrderStep]_vars

C20_Witness ==
    /\ pc = "done"
    /\ thrown = Error(MsgNoAuth)
    /\ tried = UpTo(5)
    /\ posts = 3
    /\ ptried = <<>>
    /\ gets = 0

(***************************************************************************)
(* C13: requests share no mutable state.  Two requests for "/api/buckets"  *)
(* run in one process and the event loop goes from one to the other at     *)
(* any await.  Whatever the interleaving, the token, the project id and    *)
(* the response of each request are those of one request running alone     *)
(* with the same configuration and the same external answers.              *)
(***************************************************************************)
\* the key that credential source k of configuration e hands to
\* getServiceAccountToken, if it has one
SoloKey(e, k) ==
    LET none == [ok |-> FALSE, error |-> NoError, value |-> JsonParse(NoText).value]
    IN  CASE k = 1 ->
                LET v == e.GCP_SERVICE_ACCOUNT
                IN  IF v.perm = "granted" /\ v.val.form # "empty" /\ JsonParse(v.val).ok
                    THEN [ok |-> TRUE, error |-> NoError, value |-> JsonParse(v.val).value]
                    ELSE none
          [] k = 2 ->
                LET v == e.GOOGLE_APPLICATION_CREDENTIALS
                IN  IF v.perm = "granted" /\ v.val # Empty /\ e.credFile.perm = "granted"
                    THEN FileCredentials(e.credFile)
                    ELSE none
          [] k = 4 ->
                IF e.defaultFile.perm = "granted" THEN FileCredentials(e.defaultFile)
                ELSE none
          [] OTHER -> none

\* getAccessToken of a request running alone, from source k on; tokenAnswers
\* are the answers of the token endpoint still to come, cli the CLI's result
RECURSIVE SoloToken(_, _, _, _)
SoloToken(e, k, tokenAnswers, cli) ==
    IF k \in {1, 2, 4}
    THEN LET c == SoloKey(e, k)
         IN  IF c.ok /\ BuildJwt(c.value).ok
             THEN LET r == ExchangeResult(Head(tokenAnswers))
                  IN  IF r.threw THEN SoloToken(e, k + 1, Tail(tokenAnswers), cli)
                      ELSE Return(r.value)
             ELSE SoloToken(e, k + 1, tokenAnswers, cli)
    ELSE IF k = 3
         THEN LET v == e.CLOUD_ACCESS_TOKEN
              IN  IF v.perm = "granted" /\ v.val # Empty THEN Return(Str(v.val))
                  ELSE SoloToken(e, k + 1, tokenAnswers, cli)
         ELSE LET r == GcloudToken(cli)
              IN  IF r.ok THEN Return(Str(r.value)) ELSE Throw(Error(MsgNoAuth))

\* getCurrentProject of a request running alone
SoloProject(e, cli) ==
    LET v1 == e.GCP_PROJECT_ID
        v2 == e.GCP_SERVICE_ACCOUNT
        v3 == e.GOOGLE_APPLICATION_CREDENTIALS
    IN  IF v1.perm = "granted" /\ v1.val # Empty
        THEN Return(Str(v1.val))
        ELSE IF v2.perm = "granted" /\ v2.val.form # "empty" /\ ProjectIdOf(v2.val) # Empty
        THEN Return(Str(ProjectIdOf(v2.val)))
        ELSE IF v3.perm = "granted" /\ v3.val # Empty /\ FileProjectId(e.credFile) # Empty
        THEN Return(Str(FileProjectId(e.credFile)))
        ELSE IF FileProjectId(e.defaultFile) # Empty
        THEN Return(Str(FileProjectId(e.defaultFile)))
        ELSE GcloudProject(cli)

\* what a request running alone obtains from configuration e and the
\* external answers of log
SoloOutcome(e, log) ==
    LET t == SoloToken(e, 1, log.token, log.cliToken)
        p == SoloProject(e, log.cliProject)
        l == ListResult(log.list)
    IN  IF t.threw
        THEN [token |-> Undefined, projectId |-> Empty, response |-> ErrorResponse(t.error)]
        ELSE IF p.threw
        THEN [token |-> t.value, projectId |-> Empty, response |-> ErrorResponse(p.error)]
        ELSE IF ~l.ok
        THEN [token |-> t.value, projectId |-> p.value.val,
              response |-> ErrorResponse(l.error)]
        ELSE [token |-> t.value, projectId |-> p.value.val,
              response |-> BucketsResponse(l.items)]

Outcome(c) == [token |-> c.token, projectId |-> c.projectId, response |-> c.response]

C13_Isolation ==
    /\ (answers.on /\ pc = "done") => Outcome(Context) = SoloOutcome(env, answers)
    /\ (other.answers.on /\ other.pc = "done") =>
            Outcome(other) = SoloOutcome(env, other.answers)

\* both requests have answered, the second one while the first was suspended,
\* and they were given different answers and obtained different results
C13_Witness ==
    /\ rid = 1
    /\ pc = "done"
    /\ other.pc = "done"
    /\ answers # other.answers
    /\ token = Str(<<"c">>)
    /\ other.token = Str(AccessTokenValue)
    /\ response.status = 200
    /\ other.response.status = 500


(***************************************************************************)
(* C21: whenever the bucket-list GET is issued, the bearer token of its    *)
(* Authorization header is a non-empty string that one credential source   *)
(* produced: an access_token the token endpoint returned (sources 1, 2 and *)
(* 4), the value of CLOUD_ACCESS_TOKEN (source 3), or the trimmed output   *)
(* of the CLI (source 5).                                                  *)
(***************************************************************************)
\* the text after "Bearer " in the Authorization header of the request
BearerOf(request) == SubSeq(request.authorization, 8, Len(request.authorization))

C21_BearerToken ==
    listReq # NoRequest =>
        /\ listReq.authorization = <<"B", "e", "a", "r", "e", "r", " ">> \o BearerOf(listReq)
        /\ BearerOf(listReq) # Empty
        /\ token.def
        /\ BearerOf(listReq) = token.val
        /\ src \in 1..5
        /\ src \in {1, 2, 4} =>
                \E resp \in TokenResponses :
                    /\ Success(resp.status)
                    /\ resp.body.access_token = Str(BearerOf(listReq))
        /\ src = 3 =>
                /\ env.CLOUD_ACCESS_TOKEN.perm = "granted"
                /\ BearerOf(listReq) = env.CLOUD_ACCESS_TOKEN.val
        /\ src = 5 =>
                \E result \in CliResults :
                    /\ result.kind = "ok"
                    /\ IsTrimOf(BearerOf(listReq), result.stdout)


(***************************************************************************)
(* C22: provided every external call eventually returns or fails, every    *)
(* request eventually receives exactly one response, and the status of     *)
(* that response is 200, 404, 405 or 500.  A request that has arrived is   *)
(* eventually answered; a response, once given, is never replaced; and a   *)
(* request is answered exactly when its handling has ended.                *)
(***************************************************************************)
Statuses == {200, 404, 405, 500}

C22_Answered == (pc # "idle") ~> (pc = "done" /\ response # NoResponse)

C22_OneResponse ==
    /\ [](response # NoResponse <=> pc = "done")
    /\ [][response # NoResponse => response' = response]_vars

C22_Status == [](response # NoResponse => response.status \in Statuses)

C22_EveryRequestAnswered == C22_Answered /\ C22_OneResponse /\ C22_Status

\* a request for the bucket list was answered after its token came from the
\* token endpoint, its project from the CLI and the bucket list was fetched
C22_Witness ==
    /\ pc = "done"
    /\ response.status = 200
    /\ path = "/api/buckets"
    /\ posts > 0
    /\ gets = 1
    /\ psrc = 5


(***************************************************************************)
(* C23: the project id is resolved independently of the token.  Two        *)
(* requests run over the same environment values and file contents; when   *)
(* the CLI gave them the same answer about the project (or was asked by    *)
(* one of them at most), getCurrentProject ends the same way in both, with *)
(* the same project id or the same error, whichever credential source      *)
(* produced the token of each.                                             *)
(***************************************************************************)
\* getCurrentProject was called in request c and has returned or thrown
ProjectSettled(c) ==
    c.ptried # <<>> /\ c.pc \in {"project_ret", "get", "get_body", "list_ret", "done"}

\* how getCurrentProject ended in request c: once listBuckets has gone on,
\* the value is its projectId and the error is what listBuckets threw again
\* and the handler caught
ProjectResult(c) ==
    IF c.pc = "project_ret" THEN c.ret
    ELSE IF c.gets > 0 THEN Return(Str(c.projectId))
    ELSE IF c.pc = "list_ret" THEN Throw(c.ret.error)
    ELSE Throw(c.thrown)

\* the two requests were not given different answers by the CLI
SameCliProject(a, b) ==
    \/ a.cliProject = NoCliResult
    \/ b.cliProject = NoCliResult
    \/ a.cliProject = b.cliProject

C23_ProjectIndependentOfToken ==
    (/\ ProjectSettled(Context)
     /\ ProjectSettled(other)
     /\ SameCliProject(answers, other.answers)) =>
        ProjectResult(Context) = ProjectResult(other)

\* one request took its token from the CLI, the other from the token
\* endpoint, and both were given the same project by the CLI
C23_Witness ==
    /\ ProjectSettled(Context)
    /\ ProjectSettled(other)
    /\ src = 5
    /\ other.src = 1
    /\ token # other.token
    /\ psrc = 5
    /\ other.psrc = 5
    /\ gets = 1
    /\ other.gets = 1
    /\ projectId = <<"c">>
    /\ other.projectId = <<"c">>

====
